---- MODULE Spec2Model ----
(***************************************************************************)
(* Model of the port-scanner backend (backend/app.py) and of the scanner   *)
(* (backend/port_security_scanner.py): Scan Driver, Close strategy, Update *)
(* strategy, port classifier and the command-line orchestrator.            *)
(*                                                                         *)
(* The service is one asyncio event loop.  A coroutine runs on the loop    *)
(* until it suspends in an await that really waits (here: the send_text of *)
(* a broadcast); a synchronous call (subprocess.run inside the scanner)    *)
(* keeps the loop.  `loop` names the task that holds the loop, 0 = idle.   *)
(***************************************************************************)
EXTENDS Integers, Sequences, FiniteSets, TLC

\* ---------------------------------------------------------------- bounds
MaxOps == 2
MaxObs == 2
MaxLines == 3

\* Identifiers of operations: MaxOps for the requests that start one, and one
\* more that only a rollback request can take.
Ids == 1..(MaxOps + 1)
Obs == 1..MaxObs

VARIABLES
  active_operations,   \* app.py:44   id -> entry (the Registry)
  active_connections,  \* app.py:90   list of subscribed observers
  ws,                  \* per observer: connection state of its WebSocket
  nextId,              \* number of identifiers issued so far (uuid4 is fresh)
  scanner_instance,    \* app.py:45   TRUE once PortSecurityScanner() was built
  loop,                \* task holding the event loop, 0 when idle
  pc,                  \* per task: position in run_port_scan / run_security_action
  kind,                \* per task: "scan" | "action"
  action,              \* per task: the action string of run_security_action
  open_ports,          \* per task: local open_ports of run_port_scan
  result,              \* per task: locals success / message of run_security_action
  bc,                  \* per task: position inside ConnectionManager.broadcast
  bidx,                \* per task: index of the list iterator of broadcast
  bcur,                \* per task: `connection` of the broadcast loop
  bdisc,               \* per task: `disconnected` of broadcast
  published,           \* history: per operation, the events published so far
  bgot,                \* history: per task, the observers this broadcast delivered to
  bsubs,               \* history: per task, the subscribers when broadcast was called
  btried,              \* history: per task, the observers this broadcast sent to
  writes,              \* history: per operation, the Registry writes
  tool,                \* history: per scan task, what the scan tool did
  stdout,              \* parsing: tool output handed to the Scan Driver
  parsed,              \* parsing: <<done, open-port list>>
  port,                \* per task: argument `port` of run_security_action
  service,             \* per task: argument `service` of run_security_action
  origin,              \* history: per task, the operation a rollback request named
  automated_mode,      \* per task: argument `automated_mode` of run_port_scan
  close_run,           \* one call of close_vulnerable_port: position and locals
  orch,                \* one run of run_security_scan: position and locals
  cls,                 \* one classification: the catalog, the input and the results
  update_run           \* one call of apply_security_update: position and locals

opVars   == <<active_operations, nextId, scanner_instance, loop, pc, kind, action,
             open_ports, result, writes, tool>>
bcVars   == <<active_connections, ws, bc, bidx, bcur, bdisc, published, bgot,
             bsubs, btried>>
parseVars == <<stdout, parsed>>
reqVars  == <<port, service, origin, automated_mode>>
callVars == <<close_run, orch, cls, update_run>>
vars == <<opVars, bcVars, parseVars, reqVars, callVars>>

\* ------------------------------------------------------------ Scan Driver
\* Program text is modelled as a sequence of characters.  A printable ASCII
\* character is the one-character string, a control character with an escape
\* is that escape ("\t", "\n", "\f", "\r"), and every other character is
\* named by its code point: "U+000B" is VT, "U+0662" is ARABIC-INDIC DIGIT TWO.
\* The pattern is a str pattern, so \d is the Unicode class Nd and \s is
\* str.isspace(); int() reads every Nd digit by its decimal value.  The class
\* Nd comes in rows of ten consecutive code points, zero first.
Digits ==
  << <<"0", "1", "2", "3", "4", "5", "6", "7", "8", "9">>,
   <<"U+0660", "U+0661", "U+0662", "U+0663", "U+0664", "U+0665", "U+0666", "U+0667", "U+0668", "U+0669">>,
   <<"U+06F0", "U+06F1", "U+06F2", "U+06F3", "U+06F4", "U+06F5", "U+06F6", "U+06F7", "U+06F8", "U+06F9">>,
   <<"U+07C0", "U+07C1", "U+07C2", "U+07C3", "U+07C4", "U+07C5", "U+07C6", "U+07C7", "U+07C8", "U+07C9">>,
   <<"U+0966", "U+0967", "U+0968", "U+0969", "U+096A", "U+096B", "U+096C", "U+096D", "U+096E", "U+096F">>,
   <<"U+09E6", "U+09E7", "U+09E8", "U+09E9", "U+09EA", "U+09EB", "U+09EC", "U+09ED", "U+09EE", "U+09EF">>,
   <<"U+0A66", "U+0A67", "U+0A68", "U+0A69", "U+0A6A", "U+0A6B", "U+0A6C", "U+0A6D", "U+0A6E", "U+0A6F">>,
   <<"U+0AE6", "U+0AE7", "U+0AE8", "U+0AE9", "U+0AEA", "U+0AEB", "U+0AEC", "U+0AED", "U+0AEE", "U+0AEF">>,
   <<"U+0B66", "U+0B67", "U+0B68", "U+0B69", "U+0B6A", "U+0B6B", "U+0B6C", "U+0B6D", "U+0B6E", "U+0B6F">>,
   <<"U+0BE6", "U+0BE7", "U+0BE8", "U+0BE9", "U+0BEA", "U+0BEB", "U+0BEC", "U+0BED", "U+0BEE", "U+0BEF">>,
   <<"U+0C66", "U+0C67", "U+0C68", "U+0C69", "U+0C6A", "U+0C6B", "U+0C6C", "U+0C6D", "U+0C6E", "U+0C6F">>,
   <<"U+0CE6", "U+0CE7", "U+0CE8", "U+0CE9", "U+0CEA", "U+0CEB", "U+0CEC", "U+0CED", "U+0CEE", "U+0CEF">>,
   <<"U+0D66", "U+0D67", "U+0D68", "U+0D69", "U+0D6A", "U+0D6B", "U+0D6C", "U+0D6D", "U+0D6E", "U+0D6F">>,
   <<"U+0DE6", "U+0DE7", "U+0DE8", "U+0DE9", "U+0DEA", "U+0DEB", "U+0DEC", "U+0DED", "U+0DEE", "U+0DEF">>,
   <<"U+0E50", "U+0E51", "U+0E52", "U+0E53", "U+0E54", "U+0E55", "U+0E56", "U+0E57", "U+0E58", "U+0E59">>,
   <<"U+0ED0", "U+0ED1", "U+0ED2", "U+0ED3", "U+0ED4", "U+0ED5", "U+0ED6", "U+0ED7", "U+0ED8", "U+0ED9">>,
   <<"U+0F20", "U+0F21", "U+0F22", "U+0F23", "U+0F24", "U+0F25", "U+0F26", "U+0F27", "U+0F28", "U+0F29">>,
   <<"U+1040", "U+1041", "U+1042", "U+1043", "U+1044", "U+1045", "U+1046", "U+1047", "U+1048", "U+1049">>,
   <<"U+1090", "U+1091", "U+1092", "U+1093", "U+1094", "U+1095", "U+1096", "U+1097", "U+1098", "U+1099">>,
   <<"U+17E0", "U+17E1", "U+17E2", "U+17E3", "U+17E4", "U+17E5", "U+17E6", "U+17E7", "U+17E8", "U+17E9">>,
   <<"U+1810", "U+1811", "U+1812", "U+1813", "U+1814", "U+1815", "U+1816", "U+1817", "U+1818", "U+1819">>,
   <<"U+1946", "U+1947", "U+1948", "U+1949", "U+194A", "U+194B", "U+194C", "U+194D", "U+194E", "U+194F">>,
   <<"U+19D0", "U+19D1", "U+19D2", "U+19D3", "U+19D4", "U+19D5", "U+19D6", "U+19D7", "U+19D8", "U+19D9">>,
   <<"U+1A80", "U+1A81", "U+1A82", "U+1A83", "U+1A84", "U+1A85", "U+1A86", "U+1A87", "U+1A88", "U+1A89">>,
   <<"U+1A90", "U+1A91", "U+1A92", "U+1A93", "U+1A94", "U+1A95", "U+1A96", "U+1A97", "U+1A98", "U+1A99">>,
   <<"U+1B50", "U+1B51", "U+1B52", "U+1B53", "U+1B54", "U+1B55", "U+1B56", "U+1B57", "U+1B58", "U+1B59">>,
   <<"U+1BB0", "U+1BB1", "U+1BB2", "U+1BB3", "U+1BB4", "U+1BB5", "U+1BB6", "U+1BB7", "U+1BB8", "U+1BB9">>,
   <<"U+1C40", "U+1C41", "U+1C42", "U+1C43", "U+1C44", "U+1C45", "U+1C46", "U+1C47", "U+1C48", "U+1C49">>,
   <<"U+1C50", "U+1C51", "U+1C52", "U+1C53", "U+1C54", "U+1C55", "U+1C56", "U+1C57", "U+1C58", "U+1C59">>,
   <<"U+A620", "U+A621", "U+A622", "U+A623", "U+A624", "U+A625", "U+A626", "U+A627", "U+A628", "U+A629">>,
   <<"U+A8D0", "U+A8D1", "U+A8D2", "U+A8D3", "U+A8D4", "U+A8D5", "U+A8D6", "U+A8D7", "U+A8D8", "U+A8D9">>,
   <<"U+A900", "U+A901", "U+A902", "U+A903", "U+A904", "U+A905", "U+A906", "U+A907", "U+A908", "U+A909">>,
   <<"U+A9D0", "U+A9D1", "U+A9D2", "U+A9D3", "U+A9D4", "U+A9D5", "U+A9D6", "U+A9D7", "U+A9D8", "U+A9D9">>,
   <<"U+A9F0", "U+A9F1", "U+A9F2", "U+A9F3", "U+A9F4", "U+A9F5", "U+A9F6", "U+A9F7", "U+A9F8", "U+A9F9">>,
   <<"U+AA50", "U+AA51", "U+AA52", "U+AA53", "U+AA54", "U+AA55", "U+AA56", "U+AA57", "U+AA58", "U+AA59">>,
   <<"U+ABF0", "U+ABF1", "U+ABF2", "U+ABF3", "U+ABF4", "U+ABF5", "U+ABF6", "U+ABF7", "U+ABF8", "U+ABF9">>,
   <<"U+FF10", "U+FF11", "U+FF12", "U+FF13", "U+FF14", "U+FF15", "U+FF16", "U+FF17", "U+FF18", "U+FF19">>,
   <<"U+104A0", "U+104A1", "U+104A2", "U+104A3", "U+104A4", "U+104A5", "U+104A6", "U+104A7", "U+104A8", "U+104A9">>,
   <<"U+10D30", "U+10D31", "U+10D32", "U+10D33", "U+10D34", "U+10D35", "U+10D36", "U+10D37", "U+10D38", "U+10D39">>,
   <<"U+11066", "U+11067", "U+11068", "U+11069", "U+1106A", "U+1106B", "U+1106C", "U+1106D", "U+1106E", "U+1106F">>,
   <<"U+110F0", "U+110F1", "U+110F2", "U+110F3", "U+110F4", "U+110F5", "U+110F6", "U+110F7", "U+110F8", "U+110F9">>,
   <<"U+11136", "U+11137", "U+11138", "U+11139", "U+1113A", "U+1113B", "U+1113C", "U+1113D", "U+1113E", "U+1113F">>,
   <<"U+111D0", "U+111D1", "U+111D2", "U+111D3", "U+111D4", "U+111D5", "U+111D6", "U+111D7", "U+111D8", "U+111D9">>,
   <<"U+112F0", "U+112F1", "U+112F2", "U+112F3", "U+112F4", "U+112F5", "U+112F6", "U+112F7", "U+112F8", "U+112F9">>,
   <<"U+11450", "U+11451", "U+11452", "U+11453", "U+11454", "U+11455", "U+11456", "U+11457", "U+11458", "U+11459">>,
   <<"U+114D0", "U+114D1", "U+114D2", "U+114D3", "U+114D4", "U+114D5", "U+114D6", "U+114D7", "U+114D8", "U+114D9">>,
   <<"U+11650", "U+11651", "U+11652", "U+11653", "U+11654", "U+11655", "U+11656", "U+11657", "U+11658", "U+11659">>,
   <<"U+116C0", "U+116C1", "U+116C2", "U+116C3", "U+116C4", "U+116C5", "U+116C6", "U+116C7", "U+116C8", "U+116C9">>,
   <<"U+11730", "U+11731", "U+11732", "U+11733", "U+11734", "U+11735", "U+11736", "U+11737", "U+11738", "U+11739">>,
   <<"U+118E0", "U+118E1", "U+118E2", "U+118E3", "U+118E4", "U+118E5", "U+118E6", "U+118E7", "U+118E8", "U+118E9">>,
   <<"U+11950", "U+11951", "U+11952", "U+11953", "U+11954", "U+11955", "U+11956", "U+11957", "U+11958", "U+11959">>,
   <<"U+11C50", "U+11C51", "U+11C52", "U+11C53", "U+11C54", "U+11C55", "U+11C56", "U+11C57", "U+11C58", "U+11C59">>,
   <<"U+11D50", "U+11D51", "U+11D52", "U+11D53", "U+11D54", "U+11D55", "U+11D56", "U+11D57", "U+11D58", "U+11D59">>,
   <<"U+11DA0", "U+11DA1", "U+11DA2", "U+11DA3", "U+11DA4", "U+11DA5", "U+11DA6", "U+11DA7", "U+11DA8", "U+11DA9">>,
   <<"U+16A60", "U+16A61", "U+16A62", "U+16A63", "U+16A64", "U+16A65", "U+16A66", "U+16A67", "U+16A68", "U+16A69">>,
   <<"U+16AC0", "U+16AC1", "U+16AC2", "U+16AC3", "U+16AC4", "U+16AC5", "U+16AC6", "U+16AC7", "U+16AC8", "U+16AC9">>,
   <<"U+16B50", "U+16B51", "U+16B52", "U+16B53", "U+16B54", "U+16B55", "U+16B56", "U+16B57", "U+16B58", "U+16B59">>,
   <<"U+1D7CE", "U+1D7CF", "U+1D7D0", "U+1D7D1", "U+1D7D2", "U+1D7D3", "U+1D7D4", "U+1D7D5", "U+1D7D6", "U+1D7D7">>,
   <<"U+1D7D8", "U+1D7D9", "U+1D7DA", "U+1D7DB", "U+1D7DC", "U+1D7DD", "U+1D7DE", "U+1D7DF", "U+1D7E0", "U+1D7E1">>,
   <<"U+1D7E2", "U+1D7E3", "U+1D7E4", "U+1D7E5", "U+1D7E6", "U+1D7E7", "U+1D7E8", "U+1D7E9", "U+1D7EA", "U+1D7EB">>,
   <<"U+1D7EC", "U+1D7ED", "U+1D7EE", "U+1D7EF", "U+1D7F0", "U+1D7F1", "U+1D7F2", "U+1D7F3", "U+1D7F4", "U+1D7F5">>,
   <<"U+1D7F6", "U+1D7F7", "U+1D7F8", "U+1D7F9", "U+1D7FA", "U+1D7FB", "U+1D7FC", "U+1D7FD", "U+1D7FE", "U+1D7FF">>,
   <<"U+1E140", "U+1E141", "U+1E142", "U+1E143", "U+1E144", "U+1E145", "U+1E146", "U+1E147", "U+1E148", "U+1E149">>,
   <<"U+1E2F0", "U+1E2F1", "U+1E2F2", "U+1E2F3", "U+1E2F4", "U+1E2F5", "U+1E2F6", "U+1E2F7", "U+1E2F8", "U+1E2F9">>,
   <<"U+1E950", "U+1E951", "U+1E952", "U+1E953", "U+1E954", "U+1E955", "U+1E956", "U+1E957", "U+1E958", "U+1E959">>,
   <<"U+1FBF0", "U+1FBF1", "U+1FBF2", "U+1FBF3", "U+1FBF4", "U+1FBF5", "U+1FBF6", "U+1FBF7", "U+1FBF8", "U+1FBF9">> >>
IsDigit(c) == \E r \in 1..Len(Digits) : \E i \in 1..10 : Digits[r][i] = c
DigitVal(c) ==
  LET r == CHOOSE r \in 1..Len(Digits) : \E i \in 1..10 : Digits[r][i] = c
  IN  (CHOOSE i \in 1..10 : Digits[r][i] = c) - 1
IsSpace(c) ==
  c \in {"\t", "\n", "U+000B", "\f", "\r", "U+001C", "U+001D", "U+001E",
         "U+001F", " ", "U+0085", "U+00A0", "U+1680", "U+2000", "U+2001", "U+2002",
         "U+2003", "U+2004", "U+2005", "U+2006", "U+2007", "U+2008", "U+2009", "U+200A",
         "U+2028", "U+2029", "U+202F", "U+205F", "U+3000"}

\* str.split('\n'): the pieces between the newlines, empty pieces kept.  The
\* k-th piece lies between the (k-1)-th and the k-th newline.
SplitLines(s) ==
  LET nl == {i \in 1..Len(s) : s[i] = "\n"}
      cut(k) == IF k = 0 THEN 0
                ELSE IF k > Cardinality(nl) THEN Len(s) + 1
                ELSE CHOOSE i \in nl : Cardinality({j \in nl : j <= i}) = k
  IN  [k \in 1..(Cardinality(nl) + 1) |-> SubSeq(s, cut(k - 1) + 1, cut(k) - 1)]

\* Length of the longest run of characters satisfying a class, from index i.
DigitRun(line, i) ==
  IF i > Len(line) THEN 0
  ELSE CHOOSE k \in 0..(Len(line) - i + 1) :
         /\ (i + k > Len(line) \/ ~IsDigit(line[i + k]))
         /\ \A j \in 0..(k - 1) : IsDigit(line[i + j])
SpaceRun(line, i) ==
  IF i > Len(line) THEN 0
  ELSE CHOOSE k \in 0..(Len(line) - i + 1) :
         /\ (i + k > Len(line) \/ ~IsSpace(line[i + k]))
         /\ \A j \in 0..(k - 1) : IsSpace(line[i + j])

HasAt(line, i, word) ==
  /\ i + Len(word) - 1 <= Len(line)
  /\ \A k \in 1..Len(word) : line[i + k - 1] = word[k]

\* re.search(r'^(\d+)/tcp\s+open', line): anchored at the start of the line.
PortMatch(line) ==
  LET d == DigitRun(line, 1)
      w == SpaceRun(line, d + 5)
  IN  /\ d >= 1
      /\ HasAt(line, d + 1, <<"/", "t", "c", "p">>)
      /\ w >= 1
      /\ HasAt(line, d + 5 + w, <<"o", "p", "e", "n">>)

\* sys.get_int_max_str_digits() of the interpreter: int() of a string of more
\* digits raises ValueError.
int_max_str_digits == 4300
\* What IntOf and PortOf give when int() raises; no number read from digits
\* is negative.
ValueError == -1

\* int(port_match.group(1)) for a group of n digits.
RECURSIVE IntOf(_, _)
IntOf(line, n) ==
  IF n > int_max_str_digits THEN ValueError
  ELSE IF n = 0 THEN 0
  ELSE 10 * IntOf(line, n - 1) + DigitVal(line[n])
PortOf(line) == IntOf(line, DigitRun(line, 1))

\* The parsing loop of run_nmap_scan: one append per matching line, until a
\* conversion raises; the ports appended and whether the loop was left by
\* the exception.
RECURSIVE ParsePorts(_)
ParsePorts(lines) ==
  IF lines = <<>> THEN [ports |-> << >>, raised |-> FALSE]
  ELSE IF ~PortMatch(Head(lines)) THEN ParsePorts(Tail(lines))
  ELSE IF PortOf(Head(lines)) = ValueError THEN [ports |-> << >>, raised |-> TRUE]
  ELSE LET rest == ParsePorts(Tail(lines))
       IN  [ports |-> <<PortOf(Head(lines))>> \o rest.ports, raised |-> rest.raised]

\* What the external tool did: kind "exit" carries a return code and stdout.
ToolRun(k, rc, out) == [kind |-> k, rc |-> rc, stdout |-> out]

\* Variant: the return code of the tool is not looked at.
run_nmap_scan_IgnoresExit(t) ==
  IF t.kind = "exit"
  THEN LET got == ParsePorts(SplitLines(t.stdout))
       IN  IF got.raised THEN <<>> ELSE got.ports
  ELSE <<>>

\* run_nmap_scan: [] on a non-zero exit, a timeout, a missing tool or any
\* other exception, the ValueError of a conversion included (the ports
\* appended before it are dropped); the parsed ports otherwise.
run_nmap_scan(t) ==
  IF t.kind = "exit" /\ t.rc = 0
  THEN LET got == ParsePorts(SplitLines(t.stdout))
       IN  IF got.raised THEN <<>> ELSE got.ports
  ELSE <<>>

\* Sample output lines of the tool.
L22     == <<"2", "2", "/", "t", "c", "p", " ", " ", "o", "p", "e", "n", " ", "s", "s", "h">>
L80     == <<"8", "0", "/", "t", "c", "p", "\t", "o", "p", "e", "n">>
L021    == <<"0", "2", "1", "/", "t", "c", "p", " ", "o", "p", "e", "n">>
LClosed == <<"1", "2", "3", "4", "/", "t", "c", "p", " ", "c", "l", "o", "s", "e", "d", " ", "x">>
LUdp    == <<"5", "3", "/", "u", "d", "p", " ", "o", "p", "e", "n">>
LIndent == <<" ", "2", "3", "/", "t", "c", "p", " ", "o", "p", "e", "n">>
LHeader == <<"P", "O", "R", "T", " ", "S", "T", "A", "T", "E">>
LNoGap  == <<"2", "5", "/", "t", "c", "p", "o", "p", "e", "n">>
\* 443 with an ARABIC-INDIC DIGIT FOUR, then a form feed and an EM SPACE.
LWide   == <<"U+0664", "4", "3", "/", "t", "c", "p", "\f", "U+2003", "o", "p", "e", "n">>
\* A matching line with one digit more than int() converts.
LHuge   == [i \in 1..(int_max_str_digits + 1) |-> "1"]
             \o <<"/", "t", "c", "p", " ", "o", "p", "e", "n">>
SampleLines == {L22, L80, L021, LClosed, LUdp, LIndent, LHeader, LNoGap, LWide,
                LHuge, <<>>}

RECURSIVE JoinLines(_)
JoinLines(ls) ==
  IF ls = <<>> THEN <<>>
  ELSE IF Len(ls) = 1 THEN ls[1]
  ELSE ls[1] \o <<"\n">> \o JoinLines(Tail(ls))

SeqsUpTo(S, n) == UNION {[1..k -> S] : k \in 0..n}
ToolOutputs == {JoinLines(ls) : ls \in SeqsUpTo(SampleLines, MaxLines)}

\* ------------------------------------------------- Registry and events
Range(f) == {f[i] : i \in DOMAIN f}

Entry(st, pr, msg) == [status |-> st, progress |-> pr, message |-> msg]
\* The first entry of run_security_action also records port, service, action.
ActionEntry(st, pr, msg, p, s, a) ==
  [status |-> st, progress |-> pr, message |-> msg, port |-> p, service |-> s,
   action |-> a]

\* Variant: the assignment rebinds the Registry to a dictionary of one entry.
Put_Rebind(reg, id, e) == [i \in {id} |-> e]
\* Variant: the flag of the request is not stored.
ScanEntry_NoFlag(st, pr, msg, mode) ==
  [status |-> st, progress |-> pr, message |-> msg, automated_mode |-> FALSE]
\* The first entry of run_port_scan also records the request's automated_mode.
ScanEntry(st, pr, msg, mode) ==
  [status |-> st, progress |-> pr, message |-> msg, automated_mode |-> mode]

\* active_operations[id] = entry
Put(reg, id, e) == [i \in (DOMAIN reg) \cup {id} |-> IF i = id THEN e ELSE reg[i]]
\* Variant: the whole Registry is cleared.
Del_Clear(reg, id) == << >>
\* del active_operations[id]
Del(reg, id) == [i \in (DOMAIN reg) \ {id} |-> reg[i]]

\* An event without a "progress" key carries NoProgress.
NoProgress == -1
Event(ty, st, pr, msg) == [type |-> ty, status |-> st, progress |-> pr, message |-> msg]

Actions == {"update", "close", "auto", "skip"}
\* Two catalog ports with their catalog services.
FtpPort == 21
SmbPort == 445

\* (success, message) returned by apply_security_update / close_vulnerable_port.
CmdResults == {[success |-> TRUE, message |-> "{tactic succeeded}"],
               [success |-> FALSE, message |-> "{tactic failed}"]}

\* What the scan tool can do in one run of a scan task.
ToolRuns ==
  { ToolRun("missing", 0, <<>>),
    ToolRun("timeout", 0, <<>>),
    ToolRun("exit", 1, JoinLines(<<L22>>)),
    ToolRun("exit", 0, JoinLines(<<LHeader, LClosed>>)),
    ToolRun("exit", 0, JoinLines(<<LHeader, L22, L80>>)) }

\* Progress of the tool-invocation checkpoint of a scan.
NmapProgress == 25
\* Variant: the first entry already carries the progress of the next checkpoint.
StartProgress_Checkpoint == NmapProgress
StartProgress == 0
ExceptProgress == 0
NoPortsMessage == "No open ports found or scan failed"
final_status(success) == IF success THEN "completed" ELSE "failed"
final_progress(success) == IF success THEN 100 ELSE 0
CompleteType(k) == IF k = "scan" THEN "scan_complete" ELSE "action_complete"
UpdateType(k) == IF k = "scan" THEN "scan_update" ELSE "action_update"
\* Variant: the except-branch records no message.
ExceptMessage_Empty(k) == ""
\* f"Scan failed: {str(e)}" and f"Action failed: {str(e)}" of the except-branches.
ExceptMessage(k) == IF k = "scan" THEN "Scan failed: {e}" ELSE "Action failed: {e}"

\* Positions after which the task's coroutine returns once its broadcast did.
FinalPcs == {"s_failed", "s_complete", "a_complete", "x_pub"}
\* Variant: no `return` after the failure broadcast of run_port_scan, the task
\* falls through to the classification.
AfterBroadcast_NoReturn(label) ==
  IF label = "s_failed" THEN "s_found"
  ELSE IF label \in FinalPcs THEN "done" ELSE label
\* Where a task stands when the broadcast it called at `label` has returned:
\* after the last broadcast of a path (in particular after the failure
\* broadcast of run_port_scan, which is followed by `return`) the task is over.
AfterBroadcast(label) == IF label \in FinalPcs THEN "done" ELSE label

\* Positions at which the task is inside a synchronous call into the scanner.
CmdPcs == {"s_nmap", "a_cmd_update", "a_cmd_close", "a_cmd_auto_update", "a_cmd_auto_close"}

\* ------------------------------------------------------------------ Init
MainInit ==
  /\ active_operations = << >>
  /\ active_connections = << >>
  /\ ws = [o \in Obs |-> "new"]
  /\ nextId = 0
  /\ scanner_instance = FALSE
  /\ loop = 0
  /\ pc = [t \in Ids |-> "none"]
  /\ kind = [t \in Ids |-> "none"]
  /\ action = [t \in Ids |-> "none"]
  /\ open_ports = [t \in Ids |-> << >>]
  /\ result = [t \in Ids |-> [success |-> FALSE, message |-> ""]]
  /\ bc = [t \in Ids |-> "none"]
  /\ bidx = [t \in Ids |-> 0]
  /\ bcur = [t \in Ids |-> 0]
  /\ bdisc = [t \in Ids |-> << >>]
  /\ published = [t \in Ids |-> << >>]
  /\ bgot = [t \in Ids |-> {}]
  /\ bsubs = [t \in Ids |-> {}]
  /\ btried = [t \in Ids |-> {}]
  /\ writes = [t \in Ids |-> << >>]
  /\ tool = [t \in Ids |-> ToolRun("none", 0, << >>)]
  /\ port = [t \in Ids |-> 0]
  /\ service = [t \in Ids |-> ""]
  /\ origin = [t \in Ids |-> 0]
  /\ automated_mode = [t \in Ids |-> FALSE]

ParseIdle ==
  /\ stdout = << >>
  /\ parsed = <<FALSE, << >> >>

\* No call of close_vulnerable_port and no run of run_security_scan is under way.
CallsIdle ==
  /\ close_run = [pc |-> "idle"]
  /\ orch = [pc |-> "idle"]
  /\ cls = [pc |-> "idle"]
  /\ update_run = [pc |-> "idle"]

Init == MainInit /\ ParseIdle /\ CallsIdle

\* ------------------------------------------------------- building blocks
\* ConnectionManager.disconnect: list.remove of the first occurrence, if any.
RECURSIVE disconnect(_, _)
disconnect(list, o) ==
  IF list = << >> THEN << >>
  ELSE IF Head(list) = o THEN Tail(list)
  ELSE <<Head(list)>> \o disconnect(Tail(list), o)

\* The trailing loop of broadcast: disconnect every collected connection.
RECURSIVE DisconnectAll(_, _)
DisconnectAll(list, ds) ==
  IF ds = << >> THEN list ELSE DisconnectAll(disconnect(list, Head(ds)), Tail(ds))

\* A Registry write by task t, recorded in the write history.
Write(t, e) ==
  /\ active_operations' = Put(active_operations, t, e)
  /\ writes' = [writes EXCEPT ![t] = Append(@, e)]

\* One turn of `for connection in self.active_connections` in the broadcast
\* that task t called at position `label`, with the list iterator at index i
\* and `disconnected` = disc.  The iterator reads the live list at its index
\* and the task suspends in send_text, which frees the loop; past the end the
\* collected connections are disconnected and broadcast returns to the task,
\* which keeps the loop unless its coroutine is over.
Turn(t, i, disc, label) ==
  IF i < Len(active_connections)
  THEN /\ bcur' = [bcur EXCEPT ![t] = active_connections[i + 1]]
       /\ bidx' = [bidx EXCEPT ![t] = i + 1]
       /\ bdisc' = [bdisc EXCEPT ![t] = disc]
       /\ bc' = [bc EXCEPT ![t] = "sending"]
       /\ pc' = [pc EXCEPT ![t] = label]
       /\ loop' = 0
       /\ UNCHANGED active_connections
  ELSE /\ active_connections' = DisconnectAll(active_connections, disc)
       /\ bcur' = [bcur EXCEPT ![t] = 0]
       /\ bidx' = [bidx EXCEPT ![t] = 0]
       /\ bdisc' = [bdisc EXCEPT ![t] = << >>]
       /\ bc' = [bc EXCEPT ![t] = "none"]
       /\ pc' = [pc EXCEPT ![t] = AfterBroadcast(label)]
       /\ loop' = IF AfterBroadcast(label) = "done" THEN 0 ELSE t

\* manager.broadcast(json.dumps(ev)) called by task t at position `label`, up
\* to its first send.
Publish(t, ev, label) ==
  /\ published' = [published EXCEPT ![t] = Append(@, ev)]
  /\ Turn(t, 0, << >>, label)
  /\ IF active_connections = << >>
     THEN UNCHANGED <<bsubs, btried, bgot>>
     ELSE /\ bsubs' = [bsubs EXCEPT ![t] = Range(active_connections)]
          /\ btried' = [btried EXCEPT ![t] = {active_connections[1]}]
          /\ UNCHANGED bgot
  /\ UNCHANGED ws

\* The except-branch of a task: the entry is replaced and the failure published.
Raise(t) ==
  /\ Write(t, Entry("failed", ExceptProgress, ExceptMessage(kind[t])))
  /\ Publish(t, Event(CompleteType(kind[t]), "failed", NoProgress, ExceptMessage(kind[t])),
             "x_pub")

\* Task t is executing on the loop, outside broadcast.
Running(t) == loop = t /\ bc[t] = "none"
\* Task t is inside a synchronous call into the scanner.
InCommand(t) == Running(t) /\ pc[t] \in CmdPcs

\* ------------------------------------------------------ request handlers
\* POST /scan/start with ScanRequest(automated_mode = mode):
\* background_tasks.add_task(run_port_scan, id, target, mode).
start_scan(mode) ==
  /\ loop = 0 /\ nextId < MaxOps
  /\ nextId' = nextId + 1
  /\ kind' = [kind EXCEPT ![nextId + 1] = "scan"]
  /\ pc' = [pc EXCEPT ![nextId + 1] = "queued"]
  /\ automated_mode' = [automated_mode EXCEPT ![nextId + 1] = mode]
  /\ UNCHANGED <<active_operations, scanner_instance, loop, action, open_ports,
                 result, writes, tool, bcVars, parseVars, port, service, origin,
                 callVars>>

\* POST /scan/start with the default request, automated_mode = False.
StartScan == start_scan(FALSE)

\* Variant: a rollback runs again under the identifier it was asked to roll
\* back.
AddAction_SameId(p, s, a, from) ==
  LET id == IF from = 0 THEN nextId + 1 ELSE from
  IN  /\ nextId' = IF from = 0 THEN nextId + 1 ELSE nextId
      /\ kind' = [kind EXCEPT ![id] = "action"]
      /\ action' = [action EXCEPT ![id] = a]
      /\ port' = [port EXCEPT ![id] = p]
      /\ service' = [service EXCEPT ![id] = s]
      /\ origin' = [origin EXCEPT ![id] = from]
      /\ pc' = [pc EXCEPT ![id] = "queued"]
      /\ UNCHANGED automated_mode
\* background_tasks.add_task(run_security_action, id, p, s, a) under a fresh
\* identifier; `from` is the operation a rollback request named, 0 otherwise.
AddAction(p, s, a, from) ==
  /\ nextId' = nextId + 1
  /\ kind' = [kind EXCEPT ![nextId + 1] = "action"]
  /\ action' = [action EXCEPT ![nextId + 1] = a]
  /\ port' = [port EXCEPT ![nextId + 1] = p]
  /\ service' = [service EXCEPT ![nextId + 1] = s]
  /\ origin' = [origin EXCEPT ![nextId + 1] = from]
  /\ UNCHANGED automated_mode
  /\ pc' = [pc EXCEPT ![nextId + 1] = "queued"]

\* POST /action/execute with ActionRequest(port = p, service = s, action = a);
\* the request's operation_id is not read.
ExecuteAction(a, p, s) ==
  /\ loop = 0 /\ nextId < MaxOps
  /\ AddAction(p, s, a, 0)
  /\ UNCHANGED <<active_operations, scanner_instance, loop, open_ports,
                 result, writes, tool, bcVars, parseVars, callVars>>

NotFound == [status |-> "404"]
\* GET /scan/status/{id}, GET /action/status/{id}: a read of the Registry.
get_scan_status(id) ==
  IF id \in DOMAIN active_operations THEN active_operations[id] ELSE NotFound

\* DELETE /operations/{id}
DeleteOperation(id) ==
  /\ loop = 0
  /\ IF id \in DOMAIN active_operations
     THEN active_operations' = Del(active_operations, id)
     ELSE UNCHANGED active_operations
  /\ UNCHANGED <<nextId, scanner_instance, loop, pc, kind, action,
                 open_ports, result, writes, tool, bcVars, parseVars, reqVars, callVars>>

\* The response of DELETE /operations/{id}: 404 unless the entry exists.
delete_operation(id) ==
  IF id \in DOMAIN active_operations THEN [message |-> "Operation deleted"]
  ELSE NotFound

\* GET /logs: get_scanner() is the first statement of the handler's try, so
\* the request creates the scanner when none exists; PortSecurityScanner() may
\* raise, and the request is then answered with 500 and nothing is kept.
GetLogs ==
  /\ loop = 0
  /\ \/ scanner_instance' = TRUE
     \/ ~scanner_instance /\ UNCHANGED scanner_instance
  /\ UNCHANGED <<active_operations, nextId, loop, pc, kind, action, open_ports,
                 result, writes, tool, bcVars, parseVars, reqVars, callVars>>

\* operation.get("service", "")
ServiceOf(e) == IF "service" \in DOMAIN e THEN e.service ELSE ""

BadRequest == [status |-> "400"]
\* Variant: any operation that exists can be rolled back.
rollback_operation_AnyStatus(id) ==
  IF id \notin DOMAIN active_operations THEN NotFound
  ELSE [status |-> "started"]
\* The response of POST /rollback: 404 for an identifier without entry, 400
\* unless the entry's status is failed.
rollback_operation(id) ==
  IF id \notin DOMAIN active_operations THEN NotFound
  ELSE IF active_operations[id].status # "failed" THEN BadRequest
  ELSE [status |-> "started"]

\* POST /rollback with RollbackRequest(operation_id = id, port = p): when
\* accepted, run_security_action is queued under a fresh identifier with the
\* request's port, the entry's service (or "") and action "auto".  cap is the
\* number of identifiers the run may hand out.
Rollback(id, p, cap) ==
  /\ loop = 0
  /\ IF rollback_operation(id).status = "started"
     THEN /\ nextId < cap
          /\ AddAction(p, ServiceOf(active_operations[id]), "auto", id)
     ELSE UNCHANGED <<nextId, kind, action, pc, reqVars>>
  /\ UNCHANGED <<active_operations, scanner_instance, loop, open_ports,
                 result, writes, tool, bcVars, parseVars, callVars>>

\* ------------------------------------------------------------- observers
\* websocket_endpoint: manager.connect
WsConnect(o) ==
  /\ loop = 0 /\ ws[o] = "new"
  /\ ws' = [ws EXCEPT ![o] = "open"]
  /\ active_connections' = Append(active_connections, o)
  /\ UNCHANGED <<opVars, bc, bidx, bcur, bdisc, published, bgot, bsubs, btried, parseVars, reqVars, callVars>>

\* The peer goes away; the server has not noticed yet.  No step of a running
\* coroutine reads ws, so a drop while the loop is held is seen as a drop
\* right after the holder suspends.
ClientDrop(o) ==
  /\ loop = 0 /\ ws[o] = "open"
  /\ ws' = [ws EXCEPT ![o] = "broken"]
  /\ UNCHANGED <<opVars, active_connections, bc, bidx, bcur, bdisc, published,
                 bgot, bsubs, btried, parseVars, reqVars, callVars>>

\* websocket_endpoint: receive_text raises WebSocketDisconnect, or handling a
\* received message raises; both branches call manager.disconnect.
EndpointDisconnect(o) ==
  /\ loop = 0 /\ ws[o] \in {"open", "broken"}
  /\ ws' = [ws EXCEPT ![o] = "closed"]
  /\ active_connections' = disconnect(active_connections, o)
  /\ UNCHANGED <<opVars, bc, bidx, bcur, bdisc, published, bgot, bsubs, btried, parseVars, reqVars, callVars>>

\* ------------------------------------------------------------- broadcast
\* The observers the broadcast of task t has delivered to, and the connections
\* it has collected, once its pending send_text has resumed: the send raises
\* unless the connection is open.
Delivered(t) == bgot[t] \cup (IF ws[bcur[t]] = "open" THEN {bcur[t]} ELSE {})
Collected(t) == IF ws[bcur[t]] = "open" THEN bdisc[t] ELSE Append(bdisc[t], bcur[t])

\* `await connection.send_text(message)` resumes (delivered, or raised and
\* collected) and the loop of broadcast takes its next turn.
SendReturn(t) ==
  /\ loop = 0 /\ bc[t] = "sending"
  /\ Turn(t, bidx[t], Collected(t), pc[t])
  /\ IF bidx[t] < Len(active_connections)
     THEN /\ bgot' = [bgot EXCEPT ![t] = Delivered(t)]
          /\ btried' = [btried EXCEPT ![t] = @ \cup {active_connections[bidx[t] + 1]}]
          /\ UNCHANGED bsubs
     ELSE /\ bgot' = [bgot EXCEPT ![t] = {}]
          /\ btried' = [btried EXCEPT ![t] = {}]
          /\ bsubs' = [bsubs EXCEPT ![t] = {}]
  /\ UNCHANGED <<ws, published>>
  /\ UNCHANGED <<active_operations, nextId, scanner_instance, kind, action,
                 open_ports, result, writes, tool, parseVars, reqVars, callVars>>

\* ----------------------------------------------------------------- tasks
StartMessage(k) ==
  IF k = "scan" THEN "Starting port scan..." ELSE "Starting {action} for port {port}..."

\* The background task begins: get_scanner(), the first Registry write and the
\* first broadcast.  PortSecurityScanner() may raise while no instance exists.
TaskStart(t) ==
  /\ loop = 0 /\ pc[t] = "queued"
  /\ \/ /\ scanner_instance' = TRUE
        /\ Write(t, IF kind[t] = "scan"
                    THEN ScanEntry("running", StartProgress, StartMessage(kind[t]),
                                   automated_mode[t])
                    ELSE ActionEntry("running", StartProgress, StartMessage(kind[t]),
                                     port[t], service[t], action[t]))
        /\ Publish(t, Event(UpdateType(kind[t]), "running", 0, StartMessage(kind[t])),
                   IF kind[t] = "scan" THEN "s_start" ELSE "a_start")
     \/ /\ ~scanner_instance
        /\ UNCHANGED scanner_instance
        /\ Raise(t)
  /\ UNCHANGED <<nextId, kind, action, open_ports, result, tool, parseVars, reqVars, callVars>>

\* run_port_scan: the progress-25 broadcast, then the call of
\* scanner.run_nmap_scan; subprocess.run is synchronous, the task keeps the
\* loop while the tool runs.
ScanAnnounce(t) ==
  /\ Running(t) /\ pc[t] = "s_start"
  /\ Publish(t, Event("scan_update", "running", NmapProgress,
                      "Scanning {target} with Nmap..."),
             "s_nmap")
  /\ UNCHANGED <<active_operations, nextId, scanner_instance, kind, action,
                 open_ports, result, writes, tool, parseVars, reqVars, callVars>>

\* The tool run ends, run_nmap_scan returns its list and run_port_scan goes on
\* to `if not open_ports:` -- the failure branch writes status and message into
\* the existing entry (KeyError when it is gone); otherwise progress 50.
NmapReturn(t) ==
  /\ InCommand(t) /\ pc[t] = "s_nmap"
  /\ \E run \in ToolRuns :
       /\ tool' = [tool EXCEPT ![t] = run]
       /\ open_ports' = [open_ports EXCEPT ![t] = run_nmap_scan(run)]
       /\ IF run_nmap_scan(run) = << >>
          THEN IF t \in DOMAIN active_operations
               THEN /\ Write(t, [active_operations[t] EXCEPT !.status = "failed",
                                                             !.message = NoPortsMessage])
                    /\ Publish(t, Event("scan_complete", "failed", NoProgress,
                                        NoPortsMessage), "s_failed")
               ELSE Raise(t)
          ELSE /\ Publish(t, Event("scan_update", "running", 50,
                                   "Found {n} open ports. Analyzing vulnerabilities..."),
                          "s_found")
               /\ UNCHANGED <<active_operations, writes>>
  /\ UNCHANGED <<nextId, scanner_instance, kind, action, result, parseVars, reqVars, callVars>>

\* Classification, active_operations[id].update(...) and the final broadcast.
ScanComplete(t) ==
  /\ Running(t) /\ pc[t] = "s_found"
  /\ IF t \in DOMAIN active_operations
     THEN /\ Write(t, [active_operations[t] EXCEPT
                         !.status = "completed", !.progress = 100,
                         !.message = "Scan completed. Found {n} vulnerable ports."])
          /\ Publish(t, Event("scan_complete", "completed", 100,
                              "Scan completed. Found {n} vulnerable ports."),
                     "s_complete")
     ELSE Raise(t)
  /\ UNCHANGED <<nextId, scanner_instance, kind, action,
                 open_ports, result, tool, parseVars, reqVars, callVars>>

\* "Update final status": active_operations[id].update(...) (KeyError when the
\* entry is gone) and the action_complete broadcast, for locals success, message.
Finalize(t, success, message) ==
  /\ result' = [result EXCEPT ![t] = [success |-> success, message |-> message]]
  /\ IF t \in DOMAIN active_operations
     THEN /\ Write(t, [active_operations[t] EXCEPT
                         !.status = final_status(success),
                         !.progress = final_progress(success),
                         !.message = message])
          /\ Publish(t, Event("action_complete", final_status(success),
                              final_progress(success), message), "a_complete")
     ELSE Raise(t)

\* run_security_action: the branch on `action` after the first broadcast: the
\* progress broadcast of the branch, then the call into the scanner.  Any other
\* action string falls through with success = False and message = "".
ActionDispatch(t) ==
  /\ Running(t) /\ pc[t] = "a_start"
  /\ CASE action[t] = "update" ->
            /\ Publish(t, Event("action_update", "running", 30,
                                "Downloading patches from official sources..."),
                       "a_cmd_update")
            /\ UNCHANGED <<active_operations, writes, result>>
       [] action[t] = "close" ->
            /\ Publish(t, Event("action_update", "running", 30,
                                "Closing port using multiple methods..."),
                       "a_cmd_close")
            /\ UNCHANGED <<active_operations, writes, result>>
       [] action[t] = "auto" ->
            /\ Publish(t, Event("action_update", "running", 20,
                                "Applying updates and closing port..."),
                       "a_cmd_auto_update")
            /\ UNCHANGED <<active_operations, writes, result>>
       [] OTHER -> Finalize(t, FALSE, "")
  /\ UNCHANGED <<nextId, scanner_instance, kind, action, open_ports, tool, parseVars, reqVars, callVars>>

\* apply_security_update / close_vulnerable_port returns (success, message).
CmdReturn(t) ==
  /\ InCommand(t) /\ pc[t] \in {"a_cmd_update", "a_cmd_close"}
  /\ \E r \in CmdResults : Finalize(t, r.success, r.message)
  /\ UNCHANGED <<nextId, scanner_instance, kind, action, open_ports, tool, parseVars, reqVars, callVars>>

\* auto: the update returned; the progress-60 broadcast, then the close call.
AutoUpdateReturn(t) ==
  /\ InCommand(t) /\ pc[t] = "a_cmd_auto_update"
  /\ \E r \in CmdResults : result' = [result EXCEPT ![t] = r]
  /\ Publish(t, Event("action_update", "running", 60, "Closing port..."),
             "a_cmd_auto_close")
  /\ UNCHANGED <<active_operations, nextId, scanner_instance, kind, action,
                 open_ports, writes, tool, parseVars, reqVars, callVars>>

\* auto: the close returned; success = update_success or close_success.
AutoCloseReturn(t) ==
  /\ InCommand(t) /\ pc[t] = "a_cmd_auto_close"
  /\ \E r \in CmdResults :
       Finalize(t, result[t].success \/ r.success,
                "Update: {update_msg}, Close: {close_msg}")
  /\ UNCHANGED <<nextId, scanner_instance, kind, action, open_ports, tool, parseVars, reqVars, callVars>>

\* Steps of the background tasks and of the broadcasts they make.
ScanSteps ==
  \/ \E t \in Ids : TaskStart(t)
  \/ \E t \in Ids : SendReturn(t)
  \/ \E t \in Ids : ScanAnnounce(t)
  \/ \E t \in Ids : NmapReturn(t)
  \/ \E t \in Ids : ScanComplete(t)

ActionSteps ==
  \/ \E t \in Ids : ActionDispatch(t)
  \/ \E t \in Ids : CmdReturn(t)
  \/ \E t \in Ids : AutoUpdateReturn(t)
  \/ \E t \in Ids : AutoCloseReturn(t)

\* The operations of the service with one observer that connects and stays.
\* Delete requests name the first operation, at any moment of its life and of
\* the other operations' lives.
FirstObs == {1}
FirstOps == {1}
Next ==
  \/ StartScan
  \/ GetLogs
  \/ \E a \in Actions : ExecuteAction(a, SmbPort, "SMB")
  \/ \E id \in FirstOps : DeleteOperation(id)
  \/ \E o \in FirstObs : WsConnect(o)
  \/ ScanSteps
  \/ ActionSteps

Spec == Init /\ [][Next]_vars

\* The service under the scheduling of the event loop: a task that can take a
\* step (its command returns or raises, its send returns or raises, the loop
\* picks it up) eventually takes one.  The actions are the one-command action
\* close and the two-command action auto.
NextLive ==
  \/ StartScan
  \/ GetLogs
  \/ \E a \in {"close", "auto"} : ExecuteAction(a, SmbPort, "SMB")
  \/ \E id \in FirstOps : DeleteOperation(id)
  \/ \E o \in FirstObs : WsConnect(o)
  \/ ScanSteps
  \/ ActionSteps

SpecLive == Init /\ [][NextLive]_vars /\ WF_vars(ScanSteps \/ ActionSteps)

\* Scans requested in either mode, with deletes and one observer.
NextMode ==
  \/ \E mode \in BOOLEAN : start_scan(mode)
  \/ GetLogs
  \/ \E id \in FirstOps : DeleteOperation(id)
  \/ \E o \in FirstObs : WsConnect(o)
  \/ ScanSteps

SpecMode == Init /\ [][NextMode]_vars

\* The broadcaster under observers that come and go, driven by scans.
NextBcast ==
  \/ StartScan
  \/ GetLogs
  \/ \E o \in Obs : WsConnect(o)
  \/ \E o \in Obs : ClientDrop(o)
  \/ \E o \in Obs : EndpointDisconnect(o)
  \/ ScanSteps

SpecBcast == Init /\ [][NextBcast]_vars

\* Remediation actions and their rollbacks, with one observer.
\* The first actions either fail at once (skip) or run one command (close);
\* a rollback request carries the recorded port or another one.
RollbackActions == {"close", "skip"}
RollbackPorts == {FtpPort, SmbPort}
NextRollback ==
  \/ \E a \in RollbackActions : ExecuteAction(a, SmbPort, "SMB")
  \/ GetLogs
  \/ \E id \in Ids, p \in RollbackPorts : Rollback(id, p, MaxOps)
  \/ \E id \in Ids : DeleteOperation(id)
  \/ \E o \in FirstObs : WsConnect(o)
  \/ \E t \in Ids : TaskStart(t)
  \/ \E t \in Ids : SendReturn(t)
  \/ ActionSteps

SpecRollback == Init /\ [][NextRollback]_vars

\* Remediation actions and repeated rollbacks, without observers and without
\* delete requests: what happens to the entries is what the requests and
\* the tasks they queue do.  A rollback can take the last identifier, so a
\* first action can be rolled back twice (and once more with every further
\* identifier).
NextRepeat ==
  \/ \E a \in RollbackActions : ExecuteAction(a, SmbPort, "SMB")
  \/ GetLogs
  \/ \E id \in Ids, p \in RollbackPorts : Rollback(id, p, MaxOps + 1)
  \/ \E t \in Ids : TaskStart(t)
  \/ ActionSteps

SpecRepeat == Init /\ [][NextRepeat]_vars

\* The Scan Driver alone, on every tool output built from the sample lines.
InitParse ==
  /\ MainInit /\ CallsIdle
  /\ stdout \in ToolOutputs
  /\ parsed = <<FALSE, << >> >>

\* result.returncode == 0: the parsing part of run_nmap_scan.
ParseOutput ==
  /\ ~parsed[1]
  /\ parsed' = <<TRUE, run_nmap_scan(ToolRun("exit", 0, stdout))>>
  /\ UNCHANGED <<stdout, opVars, bcVars, reqVars, callVars>>

NextParse == ParseOutput

SpecParse == InitParse /\ [][NextParse]_vars

\* --------------------------------------------------------- Close strategy
\* platform.system().lower(); only linux and windows have a Close strategy.
Platforms == {"linux", "windows", "darwin"}
Supported == {"linux", "windows"}
SshPort == 22
\* Most listener lines netstat shows for one port.
MaxPids == 2

\* service_mapping.get(port) of close_port_windows, "" for None.
service_mapping(p) ==
  CASE p = SmbPort -> "Server"
    [] p = 3389 -> "TermService"
    [] p = FtpPort -> "FTPSVC"
    [] p = 23 -> "Telnet"
    [] p = 80 -> "W3SVC"
    [] p = 443 -> "W3SVC"
    [] p = 1433 -> "MSSQLSERVER"
    [] p = 3306 -> "MySQL"
    [] p = 5432 -> "postgresql-x64"
    [] p = 5900 -> "VNC Server"
    [] p = 6379 -> "Redis"
    [] p = 27017 -> "MongoDB"
    [] OTHER -> ""

\* How sock.bind(('127.0.0.1', port)) can end.
BindOutcomes == {"bound", "in_use", "denied"}
WSAEADDRINUSE == 10048
\* e.errno of the OSError raised by bind: "address already in use" is 10048
\* on Windows and 98 on Linux, "permission denied" is 10013 and 13.
BindErrno(os, outcome) ==
  CASE outcome = "in_use" -> IF os = "windows" THEN WSAEADDRINUSE ELSE 98
    [] outcome = "denied" -> IF os = "windows" THEN 10013 ELSE 13

\* bind_port_to_prevent_usage: True after a successful bind, and in the
\* OSError handler when e.errno == 10048.
bind_port_to_prevent_usage(os, outcome) ==
  IF outcome = "bound" THEN TRUE ELSE BindErrno(os, outcome) = WSAEADDRINUSE

\* The tactics of one Close function in program order.
Following(os, label) ==
  CASE label = "c_service" -> "c_kill"
    [] label = "c_kill" -> "c_filter"
    [] label = "c_filter" -> "c_bind"
    [] label = "c_bind" -> IF os = "windows" THEN "c_registry" ELSE "c_return"
    [] label = "c_registry" -> "c_return"

\* Variant: a fault raised inside a tactic reaches the handler of the function.
OnFault_Propagates(os, label) == "c_except"
\* A fault raised inside a tactic is caught by the tactic's own handler, which
\* logs it; the function goes on with the next tactic.
OnFault(os, label) == Following(os, label)

\* The tactic a success message stands for.
TacticOf(m) ==
  CASE m \in {"stopped user service {service}", "stopped system service {service}",
              "stopped and disabled service {win_service}",
              "stopped service {win_service}"} -> "service"
    [] m \in {"killed process {pid}", "killed process {pid} (with sudo)",
              "killed processes using fuser",
              "killed processes using fuser (with sudo)"} -> "kill"
    [] m \in {"blocked with iptables", "blocked with Windows Firewall",
              "blocked with PowerShell firewall"} -> "filter"
    [] m = "blocked with alternative methods" -> "alternative"
    [] m = "bound port to prevent usage" -> "bind"
    [] m = "disabled via registry" -> "registry"

\* How one subprocess.run ends: return code 0, another return code, or the
\* call raises.
CmdEnds == {"ok", "fail", "raise"}

\* Variant: the privileged command is run first.
PlainThenSudo_SudoFirst(cmd, r1, r2, follow, rf) ==
  [cmds |-> <<[cmd |-> cmd, sudo |-> TRUE, res |-> r2]>>
              \o (IF r2 = "fail" THEN <<[cmd |-> cmd, sudo |-> FALSE, res |-> r1]>>
                  ELSE << >>),
   won |-> IF r2 = "ok" THEN "sudo" ELSE IF r2 = "fail" /\ r1 = "ok" THEN "plain" ELSE "none",
   raised |-> r2 = "raise" \/ (r2 = "fail" /\ r1 = "raise")]
\* The pattern of the Linux service and kill tactics: the command without sudo
\* ends with r1; only on a non-zero return code the same command is run with
\* sudo and ends with r2.  After the successful one the tactic runs `follow`
\* (systemctl disable, with sudo iff the stop was; "" when there is none),
\* whose return code is not read, and only then appends its message.  The
\* commands run, which variant succeeded, and whether a call raised.
PlainThenSudo(cmd, r1, r2, follow, rf) ==
  LET plain == <<[cmd |-> cmd, sudo |-> FALSE, res |-> r1]>>
      sudo == <<[cmd |-> cmd, sudo |-> TRUE, res |-> r2]>>
      after(s) == IF follow = "" THEN << >>
                  ELSE <<[cmd |-> follow, sudo |-> s, res |-> rf]>>
      broke == follow # "" /\ rf = "raise"
  IN  CASE r1 = "ok" ->
             [cmds |-> plain \o after(FALSE), raised |-> broke,
              won |-> IF broke THEN "none" ELSE "plain"]
        [] r1 = "raise" -> [cmds |-> plain, raised |-> TRUE, won |-> "none"]
        [] r2 = "ok" ->
             [cmds |-> plain \o sudo \o after(TRUE), raised |-> broke,
              won |-> IF broke THEN "none" ELSE "sudo"]
        [] OTHER -> [cmds |-> plain \o sudo, raised |-> r2 = "raise", won |-> "none"]

\* One tactic is over: it was entered (tactic # "" when its condition held),
\* appended the messages ms, succeeded or not, raised or not.
TacticDone(tactic, ms, succeeded, raised) ==
  close_run' = [close_run EXCEPT
    !.pc = IF raised THEN OnFault(close_run.os, close_run.pc)
           ELSE Following(close_run.os, close_run.pc),
    !.success_methods = @ \o ms,
    !.attempted = IF tactic = "" THEN @ ELSE Append(@, tactic),
    !.ok = IF succeeded THEN @ \cup {tactic} ELSE @,
    !.faults = IF raised THEN @ \cup {tactic} ELSE @]

CloseFrame == UNCHANGED <<opVars, bcVars, parseVars, reqVars, orch, cls, update_run>>

\* close_vulnerable_port(port, service) on platform os with self.is_admin.
CloseCall(os, admin, p, s) ==
  /\ close_run.pc = "idle"
  /\ close_run' =
       [pc |-> IF os \in Supported THEN "c_service" ELSE "returned",
        os |-> os, admin |-> admin, port |-> p, service |-> s,
        success_methods |-> << >>, attempted |-> << >>, ok |-> {}, faults |-> {},
        pids |-> 0, fw_enabled |-> FALSE, bind |-> "none", sock_open |-> FALSE,
        cmds |-> << >>,
        ret |-> [success |-> FALSE,
                 message |-> IF os \in Supported THEN << >>
                             ELSE <<"Unsupported operating system: {os_type}">>]]
  /\ CloseFrame

\* Method 1.  Linux: systemctl --user stop, then sudo systemctl stop, when a
\* service name was given.  Windows: control_windows_service(win_service,
\* "stop") for a mapped port, then "disable" when the stop succeeded; the
\* message of the else-branch is appended when the stop failed.  The helper
\* returns False without a command when is_admin is not set, and False from
\* its own handler when running `sc` raised.
StopService ==
  /\ close_run.pc = "c_service"
  /\ IF close_run.os = "linux"
     THEN IF close_run.service # ""
          THEN \E r1, r2, rf \in CmdEnds :
                 LET t == PlainThenSudo("systemctl stop", r1, r2, "systemctl disable", rf)
                 IN  close_run' = [close_run EXCEPT
                       !.pc = IF t.raised THEN OnFault(close_run.os, close_run.pc)
                              ELSE Following(close_run.os, close_run.pc),
                       !.success_methods = @ \o
                          CASE t.won = "plain" -> <<"stopped user service {service}">>
                            [] t.won = "sudo" -> <<"stopped system service {service}">>
                            [] OTHER -> << >>,
                       !.attempted = Append(@, "service"),
                       !.ok = IF t.won # "none" THEN @ \cup {"service"} ELSE @,
                       !.faults = IF t.raised THEN @ \cup {"service"} ELSE @,
                       !.cmds = @ \o t.cmds]
          ELSE TacticDone("", << >>, FALSE, FALSE)
     ELSE IF service_mapping(close_run.port) # ""
          THEN \E stop, disable, raised \in BOOLEAN :
                 /\ ~close_run.admin => (~stop /\ ~raised)
                 /\ ~stop => ~disable
                 /\ raised => ~disable
                 /\ TacticDone("service",
                      IF stop
                      THEN IF disable
                           THEN <<"stopped and disabled service {win_service}">>
                           ELSE << >>
                      ELSE <<"stopped service {win_service}">>,
                      stop, raised)
          ELSE TacticDone("", << >>, FALSE, FALSE)
  /\ CloseFrame

\* The loop `for pid in processes` of Method 2: rs holds, per listener line of
\* netstat and in order, how kill -9 and sudo kill -9 (Windows: taskkill /F,
\* whose runs are not recorded in cmds) would end.  A listener is killed, or
\* is left alone after a non-zero return code; a call that raises ends the loop.
\* The commands run, the messages appended, and whether a call raised.
RECURSIVE KillEach(_, _)
KillEach(os, rs) ==
  IF rs = << >> THEN [cmds |-> << >>, ms |-> << >>, raised |-> FALSE]
  ELSE LET t == IF os = "windows"
                THEN [cmds |-> << >>, raised |-> rs[1][1] = "raise",
                      won |-> IF rs[1][1] = "ok" THEN "plain" ELSE "none"]
                ELSE PlainThenSudo("kill", rs[1][1], rs[1][2], "", "ok")
           m == CASE t.won = "plain" -> <<"killed process {pid}">>
                  [] t.won = "sudo" -> <<"killed process {pid} (with sudo)">>
                  [] OTHER -> << >>
           rest == IF t.raised THEN KillEach(os, << >>) ELSE KillEach(os, Tail(rs))
       IN  [cmds |-> t.cmds \o rest.cmds, ms |-> m \o rest.ms,
            raised |-> t.raised \/ rest.raised]

\* Method 2.  find_processes_using_port (Windows:
\* find_windows_processes_using_port) runs netstat: with return code 0 it
\* returns the listener lines of the port, with another return code none,
\* and when the call raises its own handler logs the fault and it returns
\* none.  Every listener found is killed in turn, the list is not
\* deduplicated; without listeners Linux falls back to fuser -k, then sudo
\* fuser -k, and Windows runs nothing.
KillProcesses ==
  /\ close_run.pc = "c_kill"
  /\ \E netstat \in CmdEnds, n \in 0..MaxPids :
     \E rs \in [1..n -> CmdEnds \X CmdEnds], f1, f2 \in CmdEnds :
       /\ netstat # "ok" => n = 0
       /\ (n > 0 \/ close_run.os = "windows") => (f1 = "fail" /\ f2 = "fail")
       /\ LET f == PlainThenSudo("fuser", f1, f2, "", "ok")
              k == IF n > 0 \/ close_run.os = "windows"
                   THEN KillEach(close_run.os, rs)
                   ELSE [cmds |-> f.cmds, raised |-> f.raised,
                         ms |-> CASE f.won = "plain" -> <<"killed processes using fuser">>
                                  [] f.won = "sudo" ->
                                       <<"killed processes using fuser (with sudo)">>
                                  [] OTHER -> << >>]
          IN  close_run' = [close_run EXCEPT
                !.pc = IF k.raised THEN OnFault(close_run.os, close_run.pc)
                       ELSE Following(close_run.os, close_run.pc),
                !.success_methods = @ \o k.ms,
                !.attempted = Append(@, "kill"),
                !.ok = IF k.ms # << >> THEN @ \cup {"kill"} ELSE @,
                !.faults = IF k.raised \/ netstat = "raise"
                           THEN @ \cup {"kill"} ELSE @,
                !.pids = n,
                !.cmds = @ \o k.cmds]
  /\ CloseFrame

\* Methods 3 to 5.  Linux: sudo iptables when is_admin.  Windows with
\* is_admin: ensure_firewall_enabled() answers True, False, or False from its
\* own handler when netsh raised; only after True block_port_with_firewall
\* and block_port_with_powershell are called, each answering True, False, or
\* False from its own handler after a raise.  Windows without is_admin:
\* block_port_alternative_methods runs netsh and, unless that returned 0,
\* PowerShell (return code 1 is taken as success); a raise of either is
\* caught by the handler around that command.
BlockPort ==
  /\ close_run.pc = "c_filter"
  /\ IF close_run.os = "linux"
     THEN IF close_run.admin
          THEN \E out \in {"ok", "fail", "raise"} :
                 TacticDone("filter",
                   IF out = "ok" THEN <<"blocked with iptables">> ELSE << >>,
                   out = "ok", out = "raise")
          ELSE TacticDone("", << >>, FALSE, FALSE)
     ELSE IF close_run.admin
          THEN \E ensure, fw, ps \in CmdEnds :
                 LET enabled == ensure = "ok"
                     firewall_success == fw = "ok"
                     ps_success == ps = "ok"
                 IN  /\ ~enabled => (fw = "fail" /\ ps = "fail")
                     /\ close_run' = [close_run EXCEPT
                          !.pc = Following(close_run.os, close_run.pc),
                          !.success_methods = @
                             \o (IF firewall_success
                                 THEN <<"blocked with Windows Firewall">> ELSE << >>)
                             \o (IF ps_success
                                 THEN <<"blocked with PowerShell firewall">> ELSE << >>),
                          !.attempted = Append(@, "filter"),
                          !.ok = IF firewall_success \/ ps_success
                                 THEN @ \cup {"filter"} ELSE @,
                          !.faults = IF "raise" \in {ensure, fw, ps}
                                     THEN @ \cup {"filter"} ELSE @,
                          !.fw_enabled = enabled]
          ELSE \E netsh, ps \in CmdEnds :
                 LET alt_success == netsh = "ok" \/ ps = "ok"
                 IN  /\ netsh = "ok" => ps = "fail"
                     /\ close_run' = [close_run EXCEPT
                          !.pc = Following(close_run.os, close_run.pc),
                          !.success_methods =
                             IF alt_success
                             THEN Append(@, "blocked with alternative methods") ELSE @,
                          !.attempted = Append(@, "alternative"),
                          !.ok = IF alt_success THEN @ \cup {"alternative"} ELSE @,
                          !.faults = IF "raise" \in {netsh, ps}
                                     THEN @ \cup {"alternative"} ELSE @]
  /\ CloseFrame

\* The placeholder bind: bind_success = self.bind_port_to_prevent_usage(port).
\* `sock` is a local of the helper; neither the daemon thread it starts nor
\* the scanner keeps a reference to it, so once the helper has returned the
\* socket is garbage and the interpreter closes it when it finalizes it: at
\* the return under reference counting, at some later collection otherwise.
BindPort ==
  /\ close_run.pc = "c_bind"
  /\ \E outcome \in BindOutcomes, finalized \in BOOLEAN :
       LET bind_success == bind_port_to_prevent_usage(close_run.os, outcome)
       IN  close_run' = [close_run EXCEPT
             !.pc = Following(close_run.os, close_run.pc),
             !.success_methods =
                IF bind_success THEN Append(@, "bound port to prevent usage") ELSE @,
             !.attempted = Append(@, "bind"),
             !.ok = IF bind_success THEN @ \cup {"bind"} ELSE @,
             !.bind = outcome,
             !.sock_open = (outcome = "bound" /\ ~finalized)]
  /\ CloseFrame

\* Method 7 of close_port_windows: disable_port_via_registry when is_admin;
\* the helper returns False from its own handler when PowerShell raised.
DisableViaRegistry ==
  /\ close_run.pc = "c_registry"
  /\ IF close_run.admin
     THEN \E reg_success, raised \in BOOLEAN :
            /\ raised => ~reg_success
            /\ TacticDone("registry",
                 IF reg_success THEN <<"disabled via registry">> ELSE << >>,
                 reg_success, raised)
     ELSE TacticDone("", << >>, FALSE, FALSE)
  /\ CloseFrame

\* `if success_methods:`: (True, "Port {port} closed using: " + the joined
\* methods), else (False, "Failed to close port ..."); the handler of the
\* function returns (False, "Exception during port closure: ...").
CloseReturn ==
  /\ close_run.pc \in {"c_return", "c_except"}
  /\ close_run' = [close_run EXCEPT
       !.pc = "returned",
       !.ret = IF close_run.pc = "c_except"
               THEN [success |-> FALSE,
                     message |-> <<"Exception during port closure: {e}">>]
               ELSE IF close_run.success_methods # << >>
               THEN [success |-> TRUE,
                     message |-> <<"Port {port} closed using: ">>
                                   \o close_run.success_methods]
               ELSE [success |-> FALSE,
                     message |-> <<"Failed to close port {port} using any method.">>]]
  /\ CloseFrame

\* The Close strategy alone, on every platform, privilege, port and service.
NextClose ==
  \/ \E os \in Platforms, admin \in BOOLEAN, p \in {SmbPort, SshPort}, s \in {"", "SMB"} :
       CloseCall(os, admin, p, s)
  \/ StopService
  \/ KillProcesses
  \/ BlockPort
  \/ BindPort
  \/ DisableViaRegistry
  \/ CloseReturn

SpecClose == Init /\ [][NextClose]_vars

\* ----------------------------------------------------------- orchestrator
\* run_security_scan of the command-line tool: one sequential run.
MaxFlagged == 2
max_retries == 3

\* Keys of self.vulnerable_ports.
CatalogPorts == {21, 23, 445, 3389, 22, 80, 443, 1433, 3306, 5432, 5900, 6379, 27017}
\* self.vulnerable_ports as __init__ builds it.
vulnerable_ports ==
  (21 :> [service |-> "FTP",
          description |-> "File Transfer Protocol - often unsecured"])
  @@ (23 :> [service |-> "Telnet",
             description |-> "Telnet - unencrypted remote access"])
  @@ (445 :> [service |-> "SMB",
              description |-> "Server Message Block - potential for SMB exploits"])
  @@ (3389 :> [service |-> "RDP",
               description |-> "Remote Desktop Protocol - common attack vector"])
  @@ (22 :> [service |-> "SSH",
             description |-> "Secure Shell - needs proper configuration"])
  @@ (80 :> [service |-> "HTTP",
             description |-> "HTTP - web server vulnerabilities"])
  @@ (443 :> [service |-> "HTTPS",
              description |-> "HTTPS - SSL/TLS vulnerabilities"])
  @@ (1433 :> [service |-> "MSSQL",
               description |-> "Microsoft SQL Server - database vulnerabilities"])
  @@ (3306 :> [service |-> "MySQL",
               description |-> "MySQL - database vulnerabilities"])
  @@ (5432 :> [service |-> "PostgreSQL",
               description |-> "PostgreSQL - database vulnerabilities"])
  @@ (5900 :> [service |-> "VNC",
               description |-> "VNC - remote desktop vulnerabilities"])
  @@ (6379 :> [service |-> "Redis",
               description |-> "Redis - in-memory database vulnerabilities"])
  @@ (27017 :> [service |-> "MongoDB",
                description |-> "MongoDB - NoSQL database vulnerabilities"])

\* Variant: the description is filled from the service name.
vulnerable_found_entry_ServiceTwice(catalog, p) ==
  [port |-> p, service |-> catalog[p].service, description |-> catalog[p].service]
\* The dict appended to vulnerable_found for a catalog port.
vulnerable_found_entry(catalog, p) ==
  [port |-> p, service |-> catalog[p].service,
   description |-> catalog[p].description]

\* Variant: the entry of a flagged port is taken out of the catalog
\* (self.vulnerable_ports.pop(port) in the place of the two lookups).
ClassifyPort_Pops(s, p) ==
  IF p \in DOMAIN s.catalog
  THEN [catalog |-> [q \in DOMAIN s.catalog \ {p} |-> s.catalog[q]],
        vulnerable_found |->
          Append(s.vulnerable_found, vulnerable_found_entry(s.catalog, p))]
  ELSE s
\* One turn of `for port in open_ports:` on the scanner's catalog and the
\* local list: `if port in self.vulnerable_ports:` appends a new dict built
\* from the catalog entry; the turn reads self.vulnerable_ports and assigns
\* nothing in it.
ClassifyPort(s, p) ==
  IF p \in DOMAIN s.catalog
  THEN [catalog |-> s.catalog,
        vulnerable_found |->
          Append(s.vulnerable_found, vulnerable_found_entry(s.catalog, p))]
  ELSE s

\* The loop of identify_vulnerable_ports over the input, first port first.
RECURSIVE ClassifyLoop(_, _)
ClassifyLoop(s, ports) ==
  IF ports = << >> THEN s
  ELSE ClassifyLoop(ClassifyPort(s, Head(ports)), Tail(ports))

\* identify_vulnerable_ports: vulnerable_found starts empty and is returned
\* after the loop.
identify_vulnerable_ports(catalog, ports) ==
  ClassifyLoop([catalog |-> catalog, vulnerable_found |-> << >>], ports).vulnerable_found

\* Tool runs of the orchestrator: a failure, and outputs with 0..MaxFlagged
\* open catalog ports after one closed port.
OrchLines == <<L22, L80, L021>>
OrchRuns ==
  {ToolRun("timeout", 0, << >>)}
  \cup {ToolRun("exit", 0, JoinLines(<<LClosed>> \o SubSeq(OrchLines, 1, k))) :
          k \in 0..(IF MaxFlagged < Len(OrchLines) THEN MaxFlagged ELSE Len(OrchLines))}

\* What input().lower().strip() gives that the prompts accept: the responses
\* of prompt_user_permission and the answers of handle_update_failure.
UserChoices == {"u", "update", "c", "close", "a", "auto", "all", "s", "skip",
                "r", "retry"}
FailureAnswers == {"r", "retry", "s", "skip", "b", "backup"}

\* What the user types at one prompt, one response per call of input(): up to
\* MaxRejected responses the prompt does not accept, then one it accepts, or
\* nothing more, and input() raises EOFError at the end of the input.
MaxRejected == 2
InputLines(accepted) ==
  {rejected \o last : rejected \in SeqsUpTo({"", "x"}, MaxRejected),
                       last \in {<< >>} \cup {<<r>> : r \in accepted}}

\* Variant: the prompt reads the user's responses in automated mode as well.
prompt_user_permission_Asks(automated, responses) ==
  LET given == {i \in 1..Len(responses) : responses[i] \in UserChoices}
      first == CHOOSE i \in given : \A j \in given : i <= j
  IN  IF given = {}
      THEN [action |-> "none", inputs |-> Len(responses) + 1, raised |-> TRUE]
      ELSE [action |-> CASE responses[first] \in {"u", "update"} -> "update"
                         [] responses[first] \in {"c", "close"} -> "close"
                         [] responses[first] \in {"a", "auto", "all"} -> "auto"
                         [] responses[first] \in {"s", "skip"} -> "skip"
                         [] responses[first] \in {"r", "retry"} -> "retry",
            inputs |-> first, raised |-> FALSE]
\* prompt_user_permission: 'auto' before any input() in automated mode;
\* otherwise `while True` calls input() until a response is accepted and
\* returns the action it names.  The action, the number of input() calls, and
\* whether input() raised, which leaves the function.
prompt_user_permission(automated, responses) ==
  LET given == {i \in 1..Len(responses) : responses[i] \in UserChoices}
      first == CHOOSE i \in given : \A j \in given : i <= j
  IN  IF automated THEN [action |-> "auto", inputs |-> 0, raised |-> FALSE]
      ELSE IF given = {}
      THEN [action |-> "none", inputs |-> Len(responses) + 1, raised |-> TRUE]
      ELSE [action |-> CASE responses[first] \in {"u", "update"} -> "update"
                         [] responses[first] \in {"c", "close"} -> "close"
                         [] responses[first] \in {"a", "auto", "all"} -> "auto"
                         [] responses[first] \in {"s", "skip"} -> "skip"
                         [] responses[first] \in {"r", "retry"} -> "retry",
            inputs |-> first, raised |-> FALSE]

\* Variant: backing up the current state goes on with the attempts.
handle_update_failure_BackupRetries(answers) ==
  LET given == {i \in 1..Len(answers) : answers[i] \in FailureAnswers}
      first == CHOOSE i \in given : \A j \in given : i <= j
  IN  IF given = {}
      THEN [retry |-> FALSE, answer |-> "", inputs |-> Len(answers) + 1,
            raised |-> TRUE]
      ELSE [retry |-> answers[first] \in {"r", "retry", "b", "backup"},
            answer |-> answers[first], inputs |-> first, raised |-> FALSE]
\* handle_update_failure: `while True` calls input() until an answer is
\* accepted; should_retry is True for retry, False for skip and for backup.
\* The decision, the accepted answer, the number of input() calls, and whether
\* input() raised.
handle_update_failure(answers) ==
  LET given == {i \in 1..Len(answers) : answers[i] \in FailureAnswers}
      first == CHOOSE i \in given : \A j \in given : i <= j
  IN  IF given = {}
      THEN [retry |-> FALSE, answer |-> "", inputs |-> Len(answers) + 1,
            raised |-> TRUE]
      ELSE [retry |-> answers[first] \in {"r", "retry"},
            answer |-> answers[first], inputs |-> first, raised |-> FALSE]

\* The output line of the tool for an open sample port.
LineOf(p) == CASE p = 22 -> L22 [] p = 80 -> L80 [] p = 443 -> LWide [] OTHER -> L021

\* The output lines of the tool for the ports in open.
RECURSIVE LinesOf(_)
LinesOf(open) ==
  IF open = << >> THEN << >>
  ELSE <<LineOf(Head(open))>> \o LinesOf(Tail(open))

\* What the tool does on the final pass when the ports in `open` are open: it
\* fails, or lists them after one closed port.
FinalRuns(open) ==
  {ToolRun("timeout", 0, << >>),
   ToolRun("exit", 0,
           JoinLines(<<LClosed>> \o LinesOf(open)))}

\* Variant: the decision is requested in automated mode as well.
AsksUser_AlsoAutomated(o, count) == count < max_retries
\* `if retry_count < max_retries and not automated_mode:` after a failed attempt.
AsksUser(o, count) == count < max_retries /\ ~o.automated

\* `while retry_count < max_retries and not action_successful:`
LoopGuard(o) == o.retry_count < max_retries /\ ~o.action_successful

OrchFrame == UNCHANGED <<opVars, bcVars, parseVars, reqVars, close_run, cls, update_run>>

\* No port has been processed yet.
NoPort == [port |-> 0, action |-> "none", execs |-> 0, successful |-> FALSE,
           verified |-> FALSE]

\* Variant: step 4 verifies every port the loop was entered for.
NextPort_VerifiesAlways(o, executed) ==
  [o EXCEPT !.last = [port |-> o.vulnerable[o.idx].port, action |-> o.action,
                      execs |-> o.execs, successful |-> o.action_successful,
                      verified |-> executed],
            !.answer = "",
            !.idx = @ + 1,
            !.pc = IF o.idx < Len(o.vulnerable) THEN "o_prompt" ELSE "o_final"]
\* The loop over vulnerable_ports takes its next element, or the run goes on
\* to the final verification scan; `last` keeps what was done for the port
\* just processed.
NextPort(o, executed) ==
  LET entry == [port |-> o.vulnerable[o.idx].port, action |-> o.action,
                execs |-> o.execs, successful |-> o.action_successful,
                verified |-> executed /\ o.action_successful]
  IN  [o EXCEPT !.last = entry,
                !.answer = "",
                !.idx = @ + 1,
                !.pc = IF o.idx < Len(o.vulnerable) THEN "o_prompt" ELSE "o_final"]

\* run_security_scan(target, automated_mode) up to the loop over the
\* vulnerable ports: it returns when the scan gave no port or no catalog port.
OrchStart(automated, run) ==
  /\ orch.pc = "idle"
  /\ LET found == identify_vulnerable_ports(vulnerable_ports, run_nmap_scan(run))
     IN  orch' = [pc |-> IF found = << >> THEN "done" ELSE "o_prompt",
                  automated |-> automated, vulnerable |-> found,
                  idx |-> 1, action |-> "none", retry_count |-> 0,
                  action_successful |-> FALSE, execs |-> 0, last |-> NoPort,
                  scans |-> 1, inputs |-> 0, persisting |-> << >>,
                  answer |-> "", closures |-> FALSE, final_open |-> << >>]
  /\ OrchFrame

\* action = self.prompt_user_permission(vuln_port, automated_mode): 'auto'
\* without input in automated mode; retry and skip `continue`.  An exception
\* of input() is caught nowhere in run_security_scan and ends the run.
PromptUser ==
  /\ orch.pc = "o_prompt"
  /\ \E responses \in InputLines(UserChoices) :
       LET asked == prompt_user_permission(orch.automated, responses)
           o == [orch EXCEPT !.action = asked.action, !.retry_count = 0,
                             !.action_successful = FALSE, !.execs = 0,
                             !.inputs = @ + asked.inputs]
       IN  orch' = IF asked.raised
                   THEN [orch EXCEPT !.pc = "raised", !.inputs = @ + asked.inputs]
                   ELSE IF asked.action \in {"retry", "skip"} THEN NextPort(o, FALSE)
                   ELSE [o EXCEPT !.pc = "o_loop"]
  /\ OrchFrame

\* One turn of the retry loop: the chosen action is executed; a failure counts
\* as a retry and, outside automated mode and with retries left, leads to the
\* decision of handle_update_failure.
Attempt ==
  /\ orch.pc = "o_loop" /\ LoopGuard(orch)
  /\ \E update_success, close_success \in BOOLEAN :
       /\ orch.action = "update" => ~close_success
       /\ orch.action = "close" => ~update_success
       /\ LET success == update_success \/ close_success
          IN  orch' = [orch EXCEPT
                !.execs = @ + 1,
                !.answer = "",
                !.closures = @ \/ close_success,
                !.action_successful = success,
                !.retry_count = IF success THEN @ ELSE @ + 1,
                !.pc = IF ~success /\ AsksUser(orch, orch.retry_count + 1)
                       THEN "o_ask" ELSE "o_loop"]
  /\ OrchFrame

\* should_retry = self.handle_update_failure(...): retry goes back to the
\* loop, skip and backup break out of it, an exception of input() ends the run.
FailureDecision ==
  /\ orch.pc = "o_ask"
  /\ \E answers \in InputLines(FailureAnswers) :
       LET decision == handle_update_failure(answers)
       IN  orch' = [orch EXCEPT
             !.inputs = @ + decision.inputs,
             !.answer = decision.answer,
             !.pc = IF decision.raised THEN "raised"
                    ELSE IF decision.retry THEN "o_loop" ELSE "o_break"]
  /\ OrchFrame

\* Step 4 after the loop: verify_port_security when the action succeeded, the
\* error log otherwise; then the next vulnerable port.
Verify ==
  /\ \/ orch.pc = "o_loop" /\ ~LoopGuard(orch)
     \/ orch.pc = "o_break"
  /\ orch' = NextPort(orch, TRUE)
  /\ OrchFrame

\* The open ports of the host at the final pass.  They are what the host has
\* then, whatever the run did: ports of the first scan in any order and
\* selection, and ports that were not open before.
FinalOpen == {<< >>, <<22>>, <<80>>, <<22, 80>>, <<80, 22>>, <<22, 80, 21>>,
              <<22, 80, 443>>}
\* What the final pass (run_nmap_scan, then identify_vulnerable_ports) can
\* report for each of them.
FinalReports ==
  [open \in FinalOpen |->
     {identify_vulnerable_ports(vulnerable_ports, run_nmap_scan(run)) :
        run \in FinalRuns(open)}]

\* Step 5: the final verification scan and its report.
FinalScan ==
  /\ orch.pc = "o_final"
  /\ \E open \in FinalOpen : \E final_vulnerable \in FinalReports[open] :
       orch' = [orch EXCEPT
         !.pc = "done",
         !.scans = @ + 1,
         !.final_open = open,
         !.persisting = final_vulnerable]
  /\ OrchFrame

NextOrch ==
  \/ \E automated \in BOOLEAN, run \in OrchRuns : OrchStart(automated, run)
  \/ PromptUser
  \/ Attempt
  \/ FailureDecision
  \/ Verify
  \/ FinalScan

\* The run is one thread: each external command returns and each prompt is
\* answered, so a step that is possible is eventually taken.
SpecOrch == Init /\ [][NextOrch]_vars /\ WF_vars(NextOrch)

\* ------------------------------------------------------------- classifier
\* identify_vulnerable_ports on every port list built from the sample ports,
\* followed by the conversion of run_port_scan and by a second call.
MaxPorts == 4
SamplePorts == {21, 22, 80, 3306, 9999}
PortLists == SeqsUpTo(SamplePorts, MaxPorts)

\* The ports that run_port_scan rates "High".
HighRiskPorts == {21, 23, 445, 3389, 1433, 3306, 5432, 5900, 6379, 27017}
risk_level(p) == IF p \in HighRiskPorts THEN "High" ELSE "Medium"

\* vuln_info of run_port_scan: one VulnerabilityInfo per flagged port.
vuln_info(found) ==
  [i \in 1..Len(found) |->
     [port |-> found[i].port, service |-> found[i].service,
      description |-> found[i].description,
      risk_level |-> risk_level(found[i].port), status |-> "detected"]]

ClsFrame ==
  UNCHANGED <<opVars, bcVars, parseVars, reqVars, close_run, orch, update_run>>

\* vulnerable_ports = scanner.identify_vulnerable_ports(open_ports) on a
\* scanner as __init__ built it: the list returned, and the scanner's catalog
\* as the loop left it.
Identify(ports) ==
  /\ cls.pc = "idle"
  /\ LET s == ClassifyLoop([catalog |-> vulnerable_ports, vulnerable_found |-> << >>],
                           ports)
     IN  cls' = [pc |-> "found", catalog |-> s.catalog, open_ports |-> ports,
                 found |-> s.vulnerable_found]
  /\ ClsFrame

\* The ScanResult of run_port_scan: vuln_info and the two counts.
BuildResult ==
  /\ cls.pc = "found"
  /\ cls' = [pc |-> "result", catalog |-> cls.catalog,
             open_ports |-> cls.open_ports, found |-> cls.found,
             vulnerable_ports |-> vuln_info(cls.found),
             total_ports |-> Len(cls.open_ports),
             vulnerable_count |-> Len(vuln_info(cls.found))]
  /\ ClsFrame

\* The same scanner classifies the same list once more: the loop runs on the
\* catalog as the first call left it, and leaves it in its turn.
IdentifyAgain ==
  /\ cls.pc = "result"
  /\ LET s == ClassifyLoop([catalog |-> cls.catalog, vulnerable_found |-> << >>],
                           cls.open_ports)
     IN  cls' = [pc |-> "again", catalog |-> s.catalog,
                 open_ports |-> cls.open_ports, found |-> cls.found,
                 vulnerable_ports |-> cls.vulnerable_ports,
                 total_ports |-> cls.total_ports,
                 vulnerable_count |-> cls.vulnerable_count,
                 again |-> s.vulnerable_found]
  /\ ClsFrame

NextClassify ==
  \/ \E ports \in PortLists : Identify(ports)
  \/ BuildResult
  \/ IdentifyAgain

SpecClassify == Init /\ [][NextClassify]_vars

\* ---------------------------------------------------------- Update strategy
\* apply_security_update(port, service) on one platform.
HttpPort == 80
UpdatePorts == {FtpPort, SmbPort, SshPort, HttpPort}

\* get_package_name_for_port: port_packages.get(os_type, {}).get(port), with
\* "" for None; the whole table of the method, ten Linux packages and twelve
\* Windows services.
get_package_name_for_port(os, p) ==
  LET port_packages ==
        [linux |-> (21 :> "vsftpd" @@ 23 :> "telnetd" @@ 22 :> "openssh-server"
                    @@ 80 :> "apache2" @@ 443 :> "apache2"
                    @@ 3306 :> "mysql-server" @@ 5432 :> "postgresql"
                    @@ 5900 :> "tightvncserver" @@ 6379 :> "redis-server"
                    @@ 27017 :> "mongodb"),
         windows |-> (21 :> "Microsoft-IIS-FTP" @@ 23 :> "Telnet"
                      @@ 445 :> "Server" @@ 3389 :> "TermService"
                      @@ 80 :> "W3SVC" @@ 443 :> "W3SVC"
                      @@ 1433 :> "MSSQLSERVER" @@ 3306 :> "MySQL"
                      @@ 5432 :> "postgresql-x64" @@ 5900 :> "VNC Server"
                      @@ 6379 :> "Redis" @@ 27017 :> "MongoDB")]
  IN  IF os \in DOMAIN port_packages /\ p \in DOMAIN port_packages[os]
      THEN port_packages[os][p]
      ELSE ""

\* How one subprocess.run of a tactic ends: the command exits with a return
\* code, or spawning it raises.
CmdRuns ==
  {[kind |-> "exit", rc |-> rc] : rc \in {0, 1, 2}} \cup {[kind |-> "raise", rc |-> 0]}

\* The apply tactic chosen for a platform, with or without a package name.
ApplyTactic(os, package) ==
  CASE os = "linux" -> IF package = "" THEN "generic_linux" ELSE "linux"
    [] os = "windows" -> IF package = "" THEN "generic_windows" ELSE "windows"
    [] OTHER -> "none"

\* Variant: without an available patch the update is given up.
EnterTactic_NeedsPatch(u, tactic) ==
  IF u.package # "" /\ u.patch # "available"
  THEN [u EXCEPT !.pc = "returned",
                 !.ret = [success |-> FALSE, message |-> "No official patches available"]]
  ELSE [u EXCEPT !.tactic = tactic, !.pc = "u_cmd"]
\* The apply tactic is entered: the Windows tactics return at once without
\* is_admin, the others go on to their first command.
EnterTactic(u, tactic) ==
  IF tactic \in {"windows", "generic_windows"} /\ ~u.admin
  THEN [u EXCEPT !.tactic = tactic, !.pc = "returned",
                 !.ret = [success |-> FALSE,
                          message |-> "Administrator privileges required for Windows updates"]]
  ELSE [u EXCEPT !.tactic = tactic, !.pc = "u_cmd"]

\* The outcome of a Linux tactic after its commands so far: apt-get update,
\* then the upgrade of the package (apply_security_update_linux) or of
\* everything (apply_generic_linux_updates), each with its own messages.
linux_outcome(tactic, runs) ==
  LET last == runs[Len(runs)]
      named == tactic = "linux"
  IN  CASE last.kind = "raise" ->
             [done |-> TRUE, success |-> FALSE,
              message |-> IF named THEN "Exception during update: {e}"
                          ELSE "Exception during generic Linux update: {e}"]
        [] Len(runs) = 1 /\ last.rc # 0 ->
             [done |-> TRUE, success |-> FALSE,
              message |-> "Failed to update package list: {stderr}"]
        [] Len(runs) = 1 ->
             [done |-> FALSE, success |-> FALSE, message |-> ""]
        [] last.rc = 0 ->
             [done |-> TRUE, success |-> TRUE,
              message |-> IF named THEN "Update successful"
                          ELSE "Generic Linux security updates applied successfully"]
        [] OTHER ->
             [done |-> TRUE, success |-> FALSE,
              message |-> IF named THEN "Update failed: {stderr}"
                          ELSE "Generic Linux update failed: {stderr}"]

\* The outcome of a Windows tactic after its PowerShell command:
\* `if result.returncode == 1:` is the success branch, in
\* apply_security_update_windows and in apply_generic_windows_updates, each
\* with its own messages.
windows_outcome(tactic, runs) ==
  LET last == runs[Len(runs)]
      named == tactic = "windows"
  IN  CASE last.kind = "raise" ->
             [done |-> TRUE, success |-> FALSE,
              message |-> IF named THEN "Exception during Windows update: {e}"
                          ELSE "Exception during generic Windows update: {e}"]
        [] last.rc = 1 ->
             [done |-> TRUE, success |-> TRUE,
              message |-> IF named
                          THEN "Windows updates processed successfully: {stdout}"
                          ELSE "Generic Windows updates processed successfully: {stdout}"]
        [] OTHER ->
             [done |-> TRUE, success |-> FALSE,
              message |-> IF named
                          THEN "Windows update failed or no updates available: {stderr}"
                          ELSE "Generic Windows update failed or no updates available: {stderr}"]

UpdFrame ==
  UNCHANGED <<opVars, bcVars, parseVars, reqVars, close_run, orch, cls>>

\* apply_security_update up to the patch lookup or the generic tactic.
UpdateCall(os, admin, p) ==
  /\ update_run.pc = "idle"
  /\ LET package_name == get_package_name_for_port(os, p)
         u == [pc |-> "u_download", os |-> os, admin |-> admin, port |-> p,
               package |-> package_name, tactic |-> "none", patch |-> "none",
               runs |-> << >>, ret |-> [success |-> FALSE, message |-> ""]]
     IN  update_run' =
           IF package_name # "" THEN u
           ELSE IF os \in Supported THEN EnterTactic(u, ApplyTactic(os, package_name))
           ELSE [u EXCEPT !.pc = "returned",
                          !.ret = [success |-> FALSE,
                                   message |-> "No package mapping found for port {port} on {os_type}"]]
  /\ UpdFrame

\* download_patch_from_official_source: its result is only logged, and its
\* faults end in its own handlers; then the tactic of the platform.
DownloadPatch ==
  /\ update_run.pc = "u_download"
  /\ \E found \in {"available", "unavailable", "raised"} :
       LET u == [update_run EXCEPT !.patch = found]
       IN  update_run' =
             IF u.os \in Supported THEN EnterTactic(u, ApplyTactic(u.os, u.package))
             ELSE [u EXCEPT !.pc = "returned",
                            !.ret = [success |-> FALSE,
                                     message |-> "Unsupported operating system: {os_type}"]]
  /\ UpdFrame

\* One subprocess.run of the apply tactic and what the tactic makes of it.
UpdateCommand ==
  /\ update_run.pc = "u_cmd"
  /\ \E run \in CmdRuns :
       LET runs == Append(update_run.runs, run)
           out == IF update_run.tactic \in {"linux", "generic_linux"}
                  THEN linux_outcome(update_run.tactic, runs)
                  ELSE windows_outcome(update_run.tactic, runs)
       IN  update_run' = [update_run EXCEPT
             !.runs = runs,
             !.pc = IF out.done THEN "returned" ELSE "u_cmd",
             !.ret = IF out.done
                     THEN [success |-> out.success, message |-> out.message]
                     ELSE @]
  /\ UpdFrame

\* The Update strategy alone, on every platform, privilege and sample port.
NextUpdate ==
  \/ \E os \in Platforms, admin \in BOOLEAN, p \in UpdatePorts : UpdateCall(os, admin, p)
  \/ DownloadPatch
  \/ UpdateCommand

SpecUpdate == Init /\ [][NextUpdate]_vars

\* ------------------------------------------------------------ properties
Terminal == {"completed", "failed"}
StatusRank(st) ==
  CASE st = "pending" -> 0
    [] st = "running" -> 1
    [] st \in Terminal -> 2
    [] OTHER -> -1
Last(q) == q[Len(q)]
ToolFailed(run) == run.kind \in {"missing", "timeout"} \/ (run.kind = "exit" /\ run.rc # 0)

\* C1: at the step that publishes an event of operation t, the Registry holds
\* an entry for t whose progress is at least the event's progress and whose
\* status is the event's status or a later one.
C1_RegistryUpdatedBeforePublish ==
  [][\A t \in Ids :
       Len(published'[t]) > Len(published[t]) =>
         /\ t \in DOMAIN active_operations'
         /\ Last(published'[t]).progress # NoProgress =>
              active_operations'[t].progress >= Last(published'[t]).progress
         /\ StatusRank(active_operations'[t].status)
              >= StatusRank(Last(published'[t]).status)]_vars

\* C2: the events published for one operation carry non-decreasing progress
\* values, and the last event of a finished task has status completed or failed.
C2_EventProgressNonDecreasing ==
  \A t \in Ids :
    /\ \A i, j \in 1..Len(published[t]) :
         (i < j /\ published[t][i].progress # NoProgress
                /\ published[t][j].progress # NoProgress)
           => published[t][i].progress <= published[t][j].progress
    /\ pc[t] = "done" =>
         /\ published[t] # << >>
         /\ Last(published[t]).status \in Terminal

\* C3: while a task is inside its external command, the service can still
\* handle a request (StartScan, DeleteOperation) and an observer connection.
C3_LoopServesDuringCommand ==
  \A t \in Ids :
    InCommand(t) =>
      /\ ENABLED (\E id \in Ids : DeleteOperation(id))
      /\ (nextId < MaxOps => ENABLED StartScan)
      /\ \A o \in Obs : ws[o] = "new" => ENABLED WsConnect(o)

\* C4: when a broadcast returns, every observer that was subscribed when it was
\* called and is still subscribed (and connected) has been sent the event; and
\* an operation's next event is published only after the broadcast of its
\* previous one has returned, so that its events arrive in publish order.
C4_SubscribedObserversReceive ==
  [][\A t \in Ids :
       /\ (bc[t] = "sending" /\ bc'[t] = "none") =>
            \A o \in bsubs[t] :
              (o \in Range(active_connections') /\ ws[o] = "open") => o \in Delivered(t)
       /\ Len(published'[t]) > Len(published[t]) => bc[t] = "none"]_vars

\* C5: when a broadcast in which a delivery raised returns, every observer that
\* was subscribed at the call and is still in the list has been attempted, the
\* task goes on after the call (nothing was raised to it), and no observer
\* whose delivery raised is left in the subscriber list.
C5_DeliveryFaultIsolated ==
  [][\A t \in Ids :
       (bc[t] = "sending" /\ bc'[t] = "none" /\ Collected(t) # << >>) =>
         /\ \A o \in bsubs[t] \cap Range(active_connections) : o \in btried[t]
         /\ pc'[t] = AfterBroadcast(pc[t])
         /\ \A o \in Range(Collected(t)) : o \notin Range(active_connections')]_vars

\* C6: every Registry status is pending, running, completed or failed; the
\* statuses written for one operation only move forward; and a completed or
\* failed status is the last status written for that operation.
C6_StatusOnlyMovesForward ==
  /\ \A id \in DOMAIN active_operations :
       /\ active_operations[id].status \in {"pending", "running", "completed", "failed"}
       /\ writes[id] # << >> /\ active_operations[id] = Last(writes[id])
  /\ \A t \in Ids : \A i, j \in 1..Len(writes[t]) :
       i < j => /\ StatusRank(writes[t][i].status) <= StatusRank(writes[t][j].status)
                /\ writes[t][i].status \notin Terminal

\* C6 witness: a finished task wrote running and then a terminal status.
C6_Witness ==
  \E t \in Ids :
    /\ pc[t] = "done" /\ Len(writes[t]) = 2 /\ t \in DOMAIN active_operations
    /\ writes[t][1].status = "running" /\ writes[t][2].status \in Terminal

\* C7: every progress written to the Registry is an integer in 0..100 and the
\* progress values written for one operation never decrease, the failure write
\* and the write of the except-branch included.
C7_RegistryProgressNonDecreasing ==
  /\ \A id \in DOMAIN active_operations : active_operations[id].progress \in 0..100
  /\ \A t \in Ids :
       /\ \A i \in 1..Len(writes[t]) : writes[t][i].progress \in 0..100
       /\ \A i, j \in 1..Len(writes[t]) :
            i < j => writes[t][i].progress <= writes[t][j].progress

\* C7 witness: the except-branch rewrote the entry of an operation that had
\* already been written, and another operation was written on its failure path.
C7_Witness ==
  /\ \E t \in Ids :
       /\ Len(writes[t]) = 2 /\ Last(writes[t]).message = ExceptMessage(kind[t])
  /\ \E t \in Ids :
       /\ kind[t] = "action" /\ Len(writes[t]) = 2 /\ ~result[t].success
       /\ Last(writes[t]).status = "failed"
       /\ Last(writes[t]).message # ExceptMessage(kind[t])

\* What a caller can see of a finished scan: the Scan Driver's list, and the
\* final status and message of the operation.
ScanOutcome(t) == <<open_ports[t], Last(writes[t]).status, Last(writes[t]).message>>

\* C8: a scan whose tool run succeeded with zero open ports and a scan whose
\* tool run failed end with different outcomes.
C8_ZeroPortsDistinguishable ==
  \A t, u \in Ids :
    ( /\ pc[t] = "done" /\ pc[u] = "done"
      /\ tool[t].kind = "exit" /\ tool[t].rc = 0 /\ open_ports[t] = << >>
      /\ ToolFailed(tool[u]) )
    => ScanOutcome(t) # ScanOutcome(u)

\* C9: when the scan tool is missing, times out or exits non-zero, the last
\* Registry write of that scan is failed with a non-empty message, its last
\* event is scan_complete with status failed, and the step changes no other
\* operation's entry.
C9_ToolFailureFailsOnlyThatScan ==
  /\ [](\A t \in Ids :
          ToolFailed(tool[t]) =>
            /\ Last(writes[t]).status = "failed"
            /\ Last(writes[t]).message # ""
            /\ Last(published[t]).type = "scan_complete"
            /\ Last(published[t]).status = "failed")
  /\ [][\A t \in Ids :
          tool'[t] # tool[t] =>
            \A u \in Ids \ {t} :
              /\ (u \in DOMAIN active_operations') = (u \in DOMAIN active_operations)
              /\ u \in DOMAIN active_operations =>
                   active_operations'[u] = active_operations[u]]_vars

\* C9 witness: a scan whose tool timed out has finished as failed while another
\* operation has an entry.
C9_Witness ==
  \E t, u \in Ids :
    /\ t # u /\ pc[t] = "done" /\ tool[t].kind = "timeout"
    /\ t \in DOMAIN active_operations /\ active_operations[t].status = "failed"
    /\ u \in DOMAIN active_operations

\* The ports of the matching lines in first-occurrence order, each port once.
RECURSIVE Dedup(_, _)
Dedup(q, seen) ==
  IF q = << >> THEN << >>
  ELSE IF Head(q) \in seen THEN Dedup(Tail(q), seen)
  ELSE <<Head(q)>> \o Dedup(Tail(q), seen \cup {Head(q)})

\* C10: the open-port list of the Scan Driver holds exactly the ports of the
\* lines matching "<port>/tcp ... open", in first-occurrence order, no port
\* twice; lines that do not match contribute nothing.
C10_ParsedPortsDuplicateFree ==
  parsed[1] =>
    /\ LET matching == SelectSeq(SplitLines(stdout), PortMatch)
       IN  parsed[2] = Dedup([i \in 1..Len(matching) |-> PortOf(matching[i])], {})
    /\ \A i, j \in 1..Len(parsed[2]) : i # j => parsed[2][i] # parsed[2][j]
    /\ \A i \in 1..Len(parsed[2]) :
         \E line \in Range(SplitLines(stdout)) : PortMatch(line) /\ PortOf(line) = parsed[2][i]

\* A call of close_vulnerable_port on a supported platform has returned.
CloseReturned == close_run.pc = "returned" /\ close_run.os \in Supported
\* The success messages listed in the returned outcome message.
MethodsNamed == Tail(close_run.ret.message)

\* C11: a returned Close reports success exactly when one of its tactics
\* succeeded, and the tactics its message names are exactly the tactics that
\* succeeded.
C11_CloseSuccessIffTacticSucceeded ==
  CloseReturned =>
    /\ close_run.ret.success <=> (close_run.ok # {})
    /\ {TacticOf(m) : m \in Range(MethodsNamed)} = close_run.ok

\* The tactics that apply to a Close run: the service stop when there is a
\* service to stop, the process termination and the placeholder bind always,
\* the packet-filter rule with elevated privilege and with nothing else, and
\* the platform extras of Windows.  It reads only what Close was called with.
Applicable ==
  {"kill", "bind"}
  \cup (IF close_run.os = "linux" /\ close_run.service # "" THEN {"service"} ELSE {})
  \cup (IF close_run.os = "windows" /\ service_mapping(close_run.port) # ""
        THEN {"service"} ELSE {})
  \cup (IF close_run.admin THEN {"filter"} ELSE {})
  \cup (IF close_run.os = "windows" /\ ~close_run.admin THEN {"alternative"} ELSE {})
  \cup (IF close_run.os = "windows" /\ close_run.admin THEN {"registry"} ELSE {})

\* C12: a returned Close has entered every applicable tactic, each once and
\* in program order, whatever the earlier tactics did (succeeded, failed or
\* raised); which tactics apply is fixed by the platform, the privilege, the
\* port and the service alone, and the placeholder bind is among them in
\* every run.
C12_EveryTacticAttempted ==
  CloseReturned =>
    /\ Range(close_run.attempted) = Applicable
    /\ Len(close_run.attempted) = Cardinality(Applicable)
    /\ close_run.attempted =
         SelectSeq(<<"service", "kill", "filter", "alternative", "bind", "registry">>,
                   LAMBDA t : t \in Applicable)
    /\ "bind" \in Range(close_run.attempted)
    /\ close_run.bind \in BindOutcomes

\* C12 witness: a privileged Linux Close returned in which both service stops
\* ended with a non-zero return code, running kill -9 raised, and the packet
\* filter and the bind were still entered, the bind being the only success.
C12_Witness ==
  /\ CloseReturned /\ close_run.os = "linux" /\ close_run.admin
  /\ \E i \in 1..Len(close_run.cmds) :
       /\ close_run.cmds[i] = [cmd |-> "systemctl stop", sudo |-> TRUE, res |-> "fail"]
       /\ \E j \in (i + 1)..Len(close_run.cmds) :
            close_run.cmds[j].cmd = "kill" /\ close_run.cmds[j].res = "raise"
  /\ close_run.attempted = <<"service", "kill", "filter", "bind">>
  /\ close_run.bind = "bound" /\ close_run.ok = {"bind"}

\* C13: when the bind fails because the address is already in use, the bind
\* tactic reports success: its message is in the outcome.
C13_BindInUseIsSuccess ==
  (CloseReturned /\ close_run.bind = "in_use") =>
    /\ "bound port to prevent usage" \in Range(MethodsNamed)
    /\ close_run.ret.success

\* C14: Close without service, without listening process, without privilege
\* and with no other tactic succeeding, on a port that can be bound, reports
\* success with the bind tactic as its only named tactic; and a Close that
\* reports failure has no tactic that succeeded.
C14_IdlePortClosedByBindAlone ==
  /\ ( /\ CloseReturned /\ close_run.service = "" /\ close_run.pids = 0
       /\ ~close_run.admin /\ close_run.bind = "bound"
       /\ close_run.ok \subseteq {"bind"} )
     => /\ close_run.ret.success
        /\ MethodsNamed = <<"bound port to prevent usage">>
  /\ (CloseReturned /\ ~close_run.ret.success) => close_run.ok = {}

\* C15: an Auto action goes from its Update call to its Close call whatever
\* Update returned; when Close has returned the overall success is true if
\* Update or Close succeeded, and the last Registry write of the operation is
\* completed exactly when the overall success is true and failed otherwise.
C15_AutoIsUpdateOrClose ==
  [][\A t \in Ids :
       /\ (pc[t] = "a_cmd_auto_update" /\ pc'[t] # pc[t]) =>
            pc'[t] = "a_cmd_auto_close"
       /\ (pc[t] = "a_cmd_auto_close" /\ pc'[t] # pc[t]) =>
            /\ result[t].success => result'[t].success
            /\ (Last(writes'[t]).status = "completed") <=> result'[t].success
            /\ Last(writes'[t]).status \in Terminal]_vars

\* The Registry entry a rollback request named, as it was recorded for the
\* operation: the arguments its task was started with.
Recorded(t) == [port |-> port[t], service |-> service[t]]

\* C16: a rollback is accepted only for an identifier that has an entry with
\* status failed; an identifier without entry gets not-found and an entry that
\* is running or completed gets the invalid-transition response; a rejected
\* request changes nothing.
C16_RollbackOnlyFromFailed ==
  /\ [](\A id \in Ids :
          /\ id \notin DOMAIN active_operations => rollback_operation(id) = NotFound
          /\ (id \in DOMAIN active_operations
              /\ active_operations[id].status \in {"running", "completed"})
               => rollback_operation(id) = BadRequest)
  /\ [][\A t \in Ids :
          origin'[t] # origin[t] =>
            /\ origin'[t] \in DOMAIN active_operations
            /\ active_operations[origin'[t]].status = "failed"
            /\ active_operations' = active_operations]_vars
  /\ [][\A id \in Ids, p \in RollbackPorts :
          (Rollback(id, p, MaxOps) /\ rollback_operation(id).status # "started") =>
            UNCHANGED vars]_vars

\* C16 witness: a rollback was accepted and its task has started, while
\* another operation is completed and so cannot be rolled back.
C16_Witness ==
  \E t, u \in Ids :
    /\ origin[t] # 0 /\ t \in DOMAIN active_operations
    /\ u \in DOMAIN active_operations /\ active_operations[u].status = "completed"
    /\ rollback_operation(u) = BadRequest

\* C17: the task of an accepted rollback runs Auto with the port and the
\* service that were recorded for the failed operation the request named.
C17_RollbackUsesRecordedPortService ==
  \A t \in Ids :
    origin[t] # 0 =>
      /\ action[t] = "auto"
      /\ port[t] = Recorded(origin[t]).port
      /\ service[t] = Recorded(origin[t]).service

\* C18: every failed entry of the Registry is returned by GetOperation and
\* carries a non-empty message.
C18_FailedEntryHasMessage ==
  \A id \in DOMAIN active_operations :
    active_operations[id].status = "failed" =>
      /\ get_scan_status(id) = active_operations[id]
      /\ get_scan_status(id).message # ""

\* C19: GetOperation and DeleteOperation answer not-found exactly for the
\* identifiers without entry, and an entry otherwise (never a default one); a
\* DeleteOperation step removes the entry of its identifier, which existed,
\* and leaves every other entry as it was.
C19_UnknownIdIsNotFound ==
  /\ [](\A id \in Ids :
          /\ id \notin DOMAIN active_operations =>
               /\ get_scan_status(id) = NotFound
               /\ delete_operation(id) = NotFound
          /\ id \in DOMAIN active_operations =>
               /\ get_scan_status(id) = active_operations[id]
               /\ get_scan_status(id) # NotFound
               /\ delete_operation(id) # NotFound)
  /\ [][\A id \in Ids :
          DeleteOperation(id) =>
            /\ id \in DOMAIN active_operations
            /\ DOMAIN active_operations' = DOMAIN active_operations \ {id}
            /\ \A u \in DOMAIN active_operations' :
                 active_operations'[u] = active_operations[u]]_vars

\* C19 witness: an operation that was written to the Registry has been
\* deleted while another operation still has its entry.
C19_Witness ==
  \E t, u \in Ids :
    /\ writes[t] # << >> /\ t \notin DOMAIN active_operations
    /\ get_scan_status(t) = NotFound
    /\ u \in DOMAIN active_operations

\* The retry loop of the orchestrator is at work on a port.
InRetryLoop == orch.pc \in {"o_loop", "o_ask", "o_break"}

\* C20: the chosen action is executed at most max_retries (3) times per
\* flagged port and never again after a success; in automated mode a port
\* whose attempts all failed was executed exactly 3 times, after which the
\* run goes on with the next flagged port; and the retry loop of every port
\* is left.
C20_RetryBoundedAndTerminates ==
  /\ [](orch.pc # "idle" =>
          /\ orch.execs <= max_retries
          /\ orch.last.execs <= max_retries
          /\ (orch.automated /\ orch.idx > 1 /\ ~orch.last.successful)
               => orch.last.execs = max_retries)
  /\ [][(orch.pc # "idle" /\ orch'.execs > orch.execs) =>
          /\ ~orch.action_successful
          /\ orch'.execs = orch.execs + 1]_vars
  /\ [][(InRetryLoop /\ ~(orch'.pc \in {"o_loop", "o_ask", "o_break", "raised"})) =>
          /\ orch'.last.port = orch.vulnerable[orch.idx].port
          /\ orch'.last.execs = orch.execs
          /\ orch'.idx = orch.idx + 1
          /\ orch'.pc = IF orch.idx < Len(orch.vulnerable) THEN "o_prompt"
                        ELSE "o_final"]_vars
  /\ \A i \in 1..MaxFlagged :
       (InRetryLoop /\ orch.idx = i)
         ~> (orch.pc # "idle" /\ (orch.idx > i \/ orch.pc = "raised"))

\* C20 witness: in an automated run with two flagged ports, the first port
\* failed three times and the run is at its second port.
C20_Witness ==
  /\ orch.pc = "o_loop" /\ orch.automated /\ orch.idx = 2
  /\ ~orch.last.successful /\ orch.last.execs = max_retries
  /\ orch.last.port = orch.vulnerable[1].port
  /\ orch.action_successful /\ orch.execs = 2

\* C21: the retry/skip/backup decision is requested only outside automated
\* mode, after a failed attempt and with attempts left; the answer retry is
\* followed by exactly one more attempt, and after the answers skip and backup
\* the port is left with no further attempt.
C21_DecisionOnlyInteractiveWithRetriesLeft ==
  /\ [](orch.pc = "o_ask" =>
          /\ ~orch.automated /\ ~orch.action_successful
          /\ orch.execs >= 1 /\ orch.execs = orch.retry_count
          /\ orch.retry_count < max_retries)
  /\ [](orch.pc # "idle" /\ orch.automated => orch.answer = "")
  /\ [][(orch.pc = "o_ask" /\ orch'.pc # "raised") =>
          /\ orch'.answer \in FailureAnswers
          /\ orch'.execs = orch.execs
          /\ orch'.answer \in {"r", "retry"} =>
               (orch'.pc = "o_loop" /\ LoopGuard(orch'))
          /\ orch'.answer \in {"s", "skip", "b", "backup"} => orch'.pc = "o_break"]_vars
  /\ [][(orch.pc # "idle" /\ orch.answer \in {"r", "retry"}) =>
          /\ orch'.execs = orch.execs + 1
          /\ orch'.pc \in {"o_loop", "o_ask"}]_vars
  /\ [][(orch.pc # "idle" /\ orch.answer \in {"s", "skip", "b", "backup"}) =>
          /\ orch'.execs = orch.execs
          /\ orch'.last.port = orch.vulnerable[orch.idx].port
          /\ orch'.last.execs = orch.execs
          /\ orch'.idx = orch.idx + 1]_vars

\* C21 witness: after a first failure the user answered retry, the second
\* attempt failed as well, and the answer backup has ended the attempts.
C21_Witness ==
  /\ orch.pc = "o_break" /\ ~orch.automated
  /\ orch.answer = "b" /\ orch.execs = 2 /\ ~orch.action_successful

\* C22: in automated mode the action of every flagged port is 'auto' and no
\* input is read, at the prompt or anywhere else in the run.
C22_AutomatedChoosesAutoWithoutInput ==
  /\ []((orch.pc # "idle" /\ orch.automated) =>
          /\ orch.inputs = 0
          /\ InRetryLoop => orch.action = "auto"
          /\ orch.idx > 1 => (orch.last.action = "auto" /\ orch.last.execs >= 1))
  /\ [][(orch.pc = "o_prompt" /\ orch.automated) =>
          /\ orch'.action = "auto"
          /\ orch'.inputs = orch.inputs
          /\ orch'.pc = "o_loop"]_vars

\* C22 witness: an automated run is at its second flagged port, both with
\* action 'auto', and nothing was read from the user.
C22_Witness ==
  /\ orch.pc = "o_loop" /\ orch.automated /\ orch.idx = 2
  /\ orch.last.action = "auto" /\ orch.action = "auto" /\ orch.inputs = 0

\* C23: a run that processed its flagged ports has scanned exactly twice and
\* reports as persisting exactly the catalog ports that are open at the final
\* pass (final_open is what is open on the target then, whatever the tool
\* run made of it); and when no closure succeeded and the ports flagged by
\* the initial scan are all still open, each of them is reported.
C23_FinalScanReportsPersisting ==
  (orch.pc = "done" /\ orch.vulnerable # << >>) =>
    /\ orch.scans = 2
    /\ orch.persisting = identify_vulnerable_ports(vulnerable_ports, orch.final_open)
    /\ (~orch.closures
        /\ \A i \in 1..Len(orch.vulnerable) :
             orch.vulnerable[i].port \in Range(orch.final_open))
         => \A i \in 1..Len(orch.vulnerable) :
              orch.vulnerable[i] \in Range(orch.persisting)

\* The ports of a list of flagged entries.
PortsOf(found) == [i \in 1..Len(found) |-> found[i].port]
\* A port is a catalog key.
IsCatalogPort(p) == p \in CatalogPorts

\* C24: the classifier returns at most as many entries as its input has
\* ports; every returned port is a catalog key that occurs in the input, so
\* no other port is returned; and each entry carries the service and the
\* description of the catalog for its port.
C24_ClassifierReturnsCatalogPortsOfInput ==
  cls.pc # "idle" =>
    /\ Len(cls.found) <= Len(cls.open_ports)
    /\ \A i \in 1..Len(cls.found) :
         /\ cls.found[i].port \in CatalogPorts
         /\ cls.found[i].port \in Range(cls.open_ports)
         /\ cls.found[i].service = vulnerable_ports[cls.found[i].port].service
         /\ cls.found[i].description =
              vulnerable_ports[cls.found[i].port].description
    /\ \A p \in Range(cls.open_ports) \ CatalogPorts :
         p \notin Range(PortsOf(cls.found))

\* C24 witness: a list with a port outside the catalog and two different
\* catalog ports was classified; fewer entries than ports came back.
C24_Witness ==
  /\ cls.pc = "found"
  /\ 9999 \in Range(cls.open_ports)
  /\ Len(cls.found) < Len(cls.open_ports)
  /\ {21, 3306} \subseteq Range(PortsOf(cls.found))

\* C25: the flagged ports are the input with the ports outside the catalog
\* removed, in the same order; after every call the scanner's catalog, as
\* the loop of the call left it, is the catalog __init__ built, key for key
\* and entry for entry; and a second classification of the same input by the
\* same scanner, run on the catalog the first call left, gives the entries
\* of the first, each with the fields the catalog had before any call.
C25_ClassifierKeepsOrderAndCatalog ==
  /\ cls.pc # "idle" =>
       /\ PortsOf(cls.found) = SelectSeq(cls.open_ports, IsCatalogPort)
       /\ cls.catalog = vulnerable_ports
       /\ DOMAIN cls.catalog = CatalogPorts
  /\ cls.pc = "again" =>
       /\ cls.again = cls.found
       /\ PortsOf(cls.again) = SelectSeq(cls.open_ports, IsCatalogPort)
       /\ \A i \in 1..Len(cls.again) :
            /\ cls.again[i].service = vulnerable_ports[cls.again[i].port].service
            /\ cls.again[i].description = vulnerable_ports[cls.again[i].port].description

\* C25 witness: a list whose catalog ports are not in ascending order, with
\* a repeated port, was classified twice, and the second call flagged the
\* repeated port twice again.
C25_Witness ==
  /\ cls.pc = "again"
  /\ PortsOf(cls.found) = <<80, 21, 80>>
  /\ PortsOf(cls.again) = <<80, 21, 80>>
  /\ Len(cls.open_ports) = 4

\* C26: every flagged vulnerability of a scan result is High exactly when its
\* port is in the high-risk set, Medium otherwise; and for the open ports
\* [21, 22, 80, 9999] exactly two vulnerabilities are flagged, port 21 High
\* and port 22 Medium, and port 9999 is not flagged.
C26_RiskTierAndScenario ==
  cls.pc \in {"result", "again"} =>
    /\ \A i \in 1..Len(cls.vulnerable_ports) :
         /\ cls.vulnerable_ports[i].risk_level \in {"High", "Medium"}
         /\ cls.vulnerable_ports[i].risk_level = "High"
              <=> cls.vulnerable_ports[i].port \in HighRiskPorts
    /\ cls.open_ports = <<21, 22, 80, 9999>> =>
         /\ cls.vulnerable_count = 2
         /\ Len(cls.vulnerable_ports) = 2
         /\ cls.vulnerable_ports[1].port = 21
         /\ cls.vulnerable_ports[1].risk_level = "High"
         /\ cls.vulnerable_ports[2].port = 22
         /\ cls.vulnerable_ports[2].risk_level = "Medium"
         /\ 9999 \notin Range(PortsOf(cls.vulnerable_ports))

\* C27: when a command of an update apply tactic exited with a non-zero
\* status, the tactic reports failure, with a failure message and not the
\* message of a raised error.
C27_NonZeroExitFailsUpdateTactic ==
  (update_run.pc = "returned" /\ update_run.runs # << >>) =>
    LET last == update_run.runs[Len(update_run.runs)]
    IN  (last.kind = "exit" /\ last.rc # 0) =>
          /\ ~update_run.ret.success
          /\ update_run.ret.message \notin
               {"Exception during update: {e}", "Exception during Windows update: {e}",
                "Exception during generic Linux update: {e}",
                "Exception during generic Windows update: {e}"}

\* C28: in a returned Close, a tactic in which running an external command
\* raised counts as failed (the outcome names no success of it), every
\* applicable tactic was still attempted, and the call returned an outcome
\* with a message instead of raising.
C28_TacticFaultIsTacticFailure ==
  CloseReturned =>
    /\ \A m \in Range(MethodsNamed) : TacticOf(m) \notin close_run.faults
    /\ close_run.faults \cap close_run.ok = {}
    /\ Range(close_run.attempted) = Applicable
    /\ close_run.ret.message # << >>

\* The task of operation t has started.
Started(t) == pc[t] \notin {"none", "queued"}

\* C29: a started task ends, and a task that has ended has written status
\* completed or failed to the Registry last; and a step into the except-branch
\* of a task leaves its entry in the Registry with status failed and a
\* message, publishes the failure, and the task goes on to its end.
C29_StartedTaskReachesTerminalStatus ==
  /\ \A t \in Ids :
       Started(t) ~> (/\ pc[t] = "done"
                      /\ writes[t] # << >>
                      /\ Last(writes[t]).status \in Terminal)
  /\ [](\A t \in Ids :
          pc[t] = "done" => (writes[t] # << >> /\ Last(writes[t]).status \in Terminal))
  /\ [][\A t \in Ids :
          Raise(t) =>
            /\ t \in DOMAIN active_operations'
            /\ active_operations'[t] = Last(writes'[t])
            /\ active_operations'[t].status = "failed"
            /\ active_operations'[t].message # ""
            /\ Last(published'[t]).status = "failed"
            /\ pc'[t] \in {"x_pub", "done"}]_vars

\* C29 witness: a task went through its except-branch and ended; its entry is
\* in the Registry with status failed and the message of the except-branch.
C29_Witness ==
  \E t \in Ids :
    /\ pc[t] = "done" /\ t \in DOMAIN active_operations
    /\ Len(writes[t]) >= 2
    /\ active_operations[t].status = "failed"
    /\ active_operations[t].message = ExceptMessage(kind[t])
    /\ active_operations[t].message # ""

\* C30: whenever a send of a broadcast resumes, the observers the broadcast has
\* delivered its event to were all subscribed when the broadcast was called; an
\* observer that connects while the broadcast is under way does not receive the
\* event in flight.
C30_NoDeliveryToLateSubscriber ==
  [][\A t \in Ids : SendReturn(t) => Delivered(t) \subseteq bsubs[t]]_vars

\* C31: every entry of the Registry holds exactly what its own task wrote
\* last, and a step in which the task of one operation writes (its except-
\* branch, which replaces the whole entry, included) leaves the entry of every
\* other identifier as it was, present or absent.
C31_WriteTouchesOnlyOwnEntry ==
  /\ [](\A t \in DOMAIN active_operations :
          writes[t] # << >> /\ active_operations[t] = Last(writes[t]))
  /\ [][\A t \in Ids :
          writes'[t] # writes[t] =>
            /\ t \in DOMAIN active_operations'
            /\ active_operations'[t] = Last(writes'[t])
            /\ \A u \in Ids \ {t} :
                 /\ u \in DOMAIN active_operations' <=> u \in DOMAIN active_operations
                 /\ u \in DOMAIN active_operations =>
                      active_operations'[u] = active_operations[u]]_vars

\* C31 witness: two operations whose tasks both wrote more than once, the
\* first ending in its except-branch, and both entries are in the Registry,
\* each as its own task left it.
C31_Witness ==
  /\ DOMAIN active_operations = {1, 2}
  /\ Len(writes[1]) >= 2 /\ Len(writes[2]) >= 2
  /\ active_operations[1].message = ExceptMessage(kind[1])
  /\ active_operations[2].status = "completed"
  /\ pc[1] = "done" /\ pc[2] = "done"

\* C32: an identifier whose task has written its entry and whose entry is no
\* longer in the Registry (only DeleteOperation removes entries) gets no entry
\* again, whatever its task does afterwards.
C32_DeletedEntryStaysDeleted ==
  [][\A t \in Ids :
       (writes[t] # << >> /\ t \notin DOMAIN active_operations) =>
         t \notin DOMAIN active_operations']_vars

\* C33: a status request for an identifier that a request handler has
\* returned is answered with the entry, from the moment the identifier is
\* returned; it is answered not-found only when the entry was deleted, that
\* is, after the task wrote it.
C33_ReturnedIdIsQueryable ==
  \A t \in 1..nextId :
    get_scan_status(t) = NotFound => writes[t] # << >>

\* C34: after a Close in which the bind tactic succeeded by binding the port
\* itself, the placeholder listener is still open.
C34_PlaceholderStaysBound ==
  (CloseReturned /\ "bind" \in close_run.ok /\ close_run.bind = "bound") =>
    close_run.sock_open

\* C35: an Update of a port with a resolved package or service name has made
\* the availability check and, on a supported platform, has entered the apply
\* tactic of the platform whatever the check answered; and what Update returns
\* is what the tactic made of its own commands (or its refusal without
\* Administrator rights), the same for every answer of the check.
C35_AdvisoryCheckDoesNotGateApply ==
  (update_run.pc = "returned" /\ update_run.package # "") =>
    /\ update_run.patch \in {"available", "unavailable", "raised"}
    /\ IF update_run.os \notin Supported
       THEN update_run.ret.message = "Unsupported operating system: {os_type}"
       ELSE /\ update_run.tactic = ApplyTactic(update_run.os, update_run.package)
            /\ update_run.tactic \in {"linux", "windows"}
            /\ IF update_run.os = "windows" /\ ~update_run.admin
               THEN update_run.ret.message =
                      "Administrator privileges required for Windows updates"
               ELSE /\ update_run.runs # << >>
                    /\ LET out == IF update_run.os = "linux"
                                  THEN linux_outcome(update_run.tactic, update_run.runs)
                                  ELSE windows_outcome(update_run.tactic, update_run.runs)
                       IN  update_run.ret = [success |-> out.success,
                                             message |-> out.message]

\* C35 witness: the check found nothing, or raised, and the update went
\* through.
C35_Witness ==
  /\ update_run.pc = "returned" /\ update_run.package # ""
  /\ update_run.patch = "unavailable"
  /\ update_run.os = "linux"
  /\ update_run.ret.success

\* C36: among the commands of the Linux service and kill tactics, a stop or a
\* kill with sudo directly follows the same command without sudo that ended
\* with a non-zero return code, and a disable with sudo directly follows a
\* successful stop with sudo; no command with sudo comes first or follows a
\* success without sudo.
C36_SudoOnlyAfterPlainFailed ==
  close_run.pc # "idle" =>
    \A i \in 1..Len(close_run.cmds) :
      close_run.cmds[i].sudo =>
        /\ i > 1
        /\ LET prev == close_run.cmds[i - 1]
               this == close_run.cmds[i]
           IN  IF this.cmd = "systemctl disable"
               THEN prev.cmd = "systemctl stop" /\ prev.sudo /\ prev.res = "ok"
                    /\ i > 2 /\ close_run.cmds[i - 2] =
                         [cmd |-> "systemctl stop", sudo |-> FALSE, res |-> "fail"]
               ELSE prev = [cmd |-> this.cmd, sudo |-> FALSE, res |-> "fail"]

\* C36 witness: a Close on Linux that stopped the service with sudo and
\* killed the listener with sudo.
C36_Witness ==
  /\ CloseReturned /\ close_run.os = "linux"
  /\ \E i, j \in 1..Len(close_run.cmds) :
       /\ close_run.cmds[i] = [cmd |-> "systemctl stop", sudo |-> TRUE, res |-> "ok"]
       /\ close_run.cmds[j] = [cmd |-> "kill", sudo |-> TRUE, res |-> "ok"]
  /\ {"service", "kill"} \subseteq close_run.ok

\* C37: a Close without elevated privilege has entered no tactic that inserts
\* a packet-filter or firewall rule (iptables, Windows Firewall, PowerShell
\* firewall, the alternative rule insertion), none of its successes is such a
\* rule, and it still succeeds whenever another tactic did.
C37_NoFilterRuleWithoutPrivilege ==
  (CloseReturned /\ ~close_run.admin) =>
    /\ Range(close_run.attempted) \cap {"filter", "alternative"} = {}
    /\ close_run.ok \cap {"filter", "alternative"} = {}
    /\ close_run.ok # {} => close_run.ret.success

ScanPcs == {"queued", "s_start", "s_nmap", "s_found", "s_failed", "s_complete",
            "x_pub", "done"}
Flagged(e) == "automated_mode" \in DOMAIN e

\* C38: a scan task, in either mode, is only ever at the positions of
\* run_port_scan, never inside a remediation call, and leaves the action
\* result untouched; it runs the scan tool once, from the position of the
\* scan, and never again for a verification; after the broadcast of its
\* classification it is over.  The flag of the request is stored in the entry
\* and appears nowhere else: two finished scans requested in different modes
\* whose tool runs were the same, and whose entries are those their
\* classification or their empty scan left, have published the same events
\* and hold the same status, progress and message.
C38_ScanOnlyScansInEitherMode ==
  /\ [](\A t \in Ids : kind[t] = "scan" =>
          /\ pc[t] \in ScanPcs
          /\ result[t] = [success |-> FALSE, message |-> ""]
          /\ \A i \in 1..Len(writes[t]) :
               Flagged(writes[t][i]) => writes[t][i].automated_mode = automated_mode[t]
          /\ \A u \in Ids :
               ( /\ kind[u] = "scan" /\ automated_mode[u] # automated_mode[t]
                 /\ pc[t] = "done" /\ pc[u] = "done" /\ tool[t] = tool[u]
                 /\ Flagged(Last(writes[t])) /\ Flagged(Last(writes[u])) ) =>
                 /\ published[t] = published[u]
                 /\ [Last(writes[t]) EXCEPT !.automated_mode = FALSE]
                      = [Last(writes[u]) EXCEPT !.automated_mode = FALSE])
  /\ [][\A t \in Ids : kind[t] = "scan" =>
          /\ tool'[t] # tool[t] => (pc[t] = "s_nmap" /\ tool[t].kind = "none")
          /\ (pc[t] = "s_complete" /\ pc'[t] # pc[t]) => pc'[t] = "done"]_vars

\* C38 witness: a scan requested in automated mode found open ports, stored
\* the flag, and is over with status completed.
C38_Witness ==
  \E t \in Ids :
    /\ kind[t] = "scan" /\ automated_mode[t] /\ pc[t] = "done"
    /\ open_ports[t] # << >>
    /\ t \in DOMAIN active_operations
    /\ active_operations[t].status = "completed"
    /\ active_operations[t].automated_mode

\* C39: a step that queues an action (ExecuteAction, or an accepted Rollback)
\* leaves the whole Registry as it was and queues the task under a fresh
\* identifier, one more than the last, never under the identifier the request
\* named; from the moment a Rollback is accepted and for as long as its task
\* runs and after it is over, the operation it named is in the Registry with
\* status failed and with every field as its own task wrote it last, and a
\* further Rollback of it is accepted; and no step in which a rollback task
\* moves changes the entry of the operation it rolls back.
C39_RequestsLeaveNamedEntryAlone ==
  /\ [][\A t \in Ids :
          (pc'[t] = "queued" /\ pc[t] # "queued") =>
            /\ active_operations' = active_operations
            /\ t = nextId + 1 /\ nextId' = t
            /\ pc[t] = "none" /\ t \notin DOMAIN active_operations
            /\ origin'[t] # 0 =>
                 /\ origin'[t] \in DOMAIN active_operations'
                 /\ origin'[t] # t
                 /\ active_operations'[origin'[t]].status = "failed"
                 /\ \E id \in Ids :
                      id = origin'[t] /\ rollback_operation(id)'.status = "started"]_vars
  /\ [](\A t \in Ids :
          origin[t] # 0 =>
            /\ origin[t] \in DOMAIN active_operations
            /\ active_operations[origin[t]].status = "failed"
            /\ active_operations[origin[t]] = Last(writes[origin[t]])
            /\ rollback_operation(origin[t]).status = "started")
  /\ [][\A t \in Ids :
          (origin[t] # 0 /\ (pc'[t] # pc[t] \/ writes'[t] # writes[t])) =>
            /\ origin[t] \in DOMAIN active_operations'
            /\ active_operations'[origin[t]] = active_operations[origin[t]]
            /\ writes'[origin[t]] = writes[origin[t]]]_vars

\* C39 witness: two rollbacks of the same failed operation were accepted and
\* both have run to their end, each under an identifier of its own, and the
\* failed operation is still as its own task left it and can be rolled back
\* once more.
C39_Witness ==
  \E o, t, u \in Ids :
    /\ origin[t] = o /\ origin[u] = o
    /\ t # u /\ pc[t] = "done" /\ pc[u] = "done"
    /\ {t, u} \subseteq DOMAIN active_operations
    /\ o \in DOMAIN active_operations
    /\ active_operations[o] = Last(writes[o])
    /\ active_operations[o].status = "failed"
    /\ rollback_operation(o).status = "started"

\* C40: the port the orchestrator has just left was verified only if its
\* action was executed and succeeded; a port for which skip or retry-later was
\* chosen had no action executed and no verification; and the retry loop is
\* only ever entered with one of the actions update, close and auto.
C40_VerifyOnlyAfterSuccess ==
  orch.pc # "idle" =>
    /\ orch.last.verified =>
         /\ orch.last.successful /\ orch.last.execs > 0
         /\ orch.last.action \in {"update", "close", "auto"}
    /\ orch.last.action \in {"skip", "retry"} =>
         orch.last.execs = 0 /\ ~orch.last.verified /\ ~orch.last.successful
    /\ orch.pc \in {"o_loop", "o_ask", "o_break"} =>
         orch.action \in {"update", "close", "auto"}
    /\ orch.execs > 0 => orch.action \in {"update", "close", "auto"}

\* C40 witness: an interactive run over two flagged ports is over; a closure
\* succeeded for the first port and retry-later was chosen for the second.
C40_Witness ==
  /\ orch.pc = "done" /\ ~orch.automated
  /\ Len(orch.vulnerable) = 2
  /\ orch.closures
  /\ orch.last.action = "retry" /\ orch.last.execs = 0 /\ ~orch.last.verified

====
